---------------------------- MODULE Spec2Model ----------------------------
(***************************************************************************)
(* Model of the animation timeline compiler                                *)
(* (packages/animations/browser/src/dsl/animation_timeline_builder.ts).    *)
(*                                                                         *)
(* Conventions                                                             *)
(*  - A style map (ɵStyleData) is a function from property names to        *)
(*    values; its DOMAIN is the set of own properties of the object.       *)
(*  - Style values are strings.  The number n is written as its decimal    *)
(*    string, so "0" stands for the number 0; the model holds no string    *)
(*    '0'.  Falsy gives the JavaScript truthiness of a value.              *)
(*  - Prototype inheritance (Object.create(backFill)) is an explicit       *)
(*    two-level lookup: own properties first, then the backFill map.       *)
(*  - Object identity: a timeline is named by its index in `timelines`;    *)
(*    a keyframe object by its key in the timeline's _keyframes Map; the   *)
(*    _globalTimelineStyles object of a timeline is the                    *)
(*    _localTimelineStyles object of the timeline `globalRef`.             *)
(*  - Times are integers (milliseconds); a keyframe offset time/duration   *)
(*    is the pair <<time, duration>>, compared as a fraction.              *)
(***************************************************************************)
EXTENDS Integers, Sequences, FiniteSets, TLC

VARIABLES
    ast,             \* the animation AST handed to buildAnimationTimelines
    startingStyles,  \* argument startingStyles
    finalStyles,     \* argument finalStyles
    rootLocals,      \* argument locals
    subInstructions, \* ElementInstructionMap: element -> pre-compiled instructions
    timelines,       \* context.timelines, in creation order (also the heap of builders)
    lookup,          \* _elementTimelineStylesLookup: element -> timeline owning the global map
    ctxs,            \* the AnimationTimelineContext objects, by creation order
    stack,           \* pending work of the visitor (the call stack of the traversal)
    errors,          \* the shared error list
    output,          \* the instructions returned by buildKeyframes
    phase,           \* "start", "visit" while traversing, "done" once the compiler
                     \* returned; "api" when the builders are driven directly
    calls,           \* number of direct TimelineBuilder calls made so far
    lastCall,        \* the last direct TimelineBuilder call: method, receiver, arguments
    transition,      \* what AnimationTransitionFactory.build returned or threw
    applied,         \* the last application of a function of util.ts: arguments, result
    flushPending,    \* AnimationRenderer._flushPending of each renderer
    flushCount,      \* MockAnimationEngine.flushCount
    invocations,     \* number of invocations of the FLUSH_ANIMATIONS_FN function
    flushes,         \* history: the calls of engine.flush() each renderer has made
    queued           \* history: what was called on each renderer since it last flushed

vars == <<ast, startingStyles, finalStyles, rootLocals, subInstructions, timelines,
          lookup, ctxs, stack, errors, output, phase, calls, lastCall, transition,
          applied, flushPending, flushCount, invocations, flushes, queued>>

\* the variables of the components the compiler does not touch
Apart == <<applied, flushPending, flushCount, invocations, flushes, queued>>

\* their values while the compiler or the builders run
NoApplication == [fn |-> "none"]
Idle ==
    /\ applied = NoApplication
    /\ flushPending = <<>>
    /\ flushCount = 0
    /\ invocations = 0
    /\ flushes = <<>>
    /\ queued = <<>>

---------------------------------------------------------------------------
(* Style maps                                                              *)

AUTO_STYLE == "*"
PRE_STYLE == "!"
NoEasing == ""

EmptyMap == [p \in {} |-> ""]

Put(m, k, v) == (k :> v) @@ m

\* own properties of src written over dst (copyObj / copyStyles without prototype)
copyObj(src, dst) == src @@ dst

\* number 0 and the empty string are the falsy style values
Falsy(v) == v \in {"0", ""}

\* obj[p] read through the prototype chain obj -> proto; <<>> is undefined
ReadProto(obj, proto, p) ==
    IF p \in DOMAIN obj THEN <<obj[p]>>
    ELSE IF p \in DOMAIN proto THEN <<proto[p]>>
    ELSE <<>>

TruthyRead(r) == r # <<>> /\ ~Falsy(r[1])

\* copyStyles(styles, readPrototype = true): for-in reveals inherited properties
copyStylesProto(obj, proto) == obj @@ proto

\* The names of locals that start with $
VarRefs == {"$w", "$x"}

\* an error message: its fixed text followed by the text it quotes
Message(text, quoted) == <<text>> \o quoted

---------------------------------------------------------------------------
(* Offsets: time / duration as a fraction <<num, den>>; den = 0 is NaN     *)

Offset(num, den) == <<num, den>>
IsNaN(o) == o[2] = 0
Sign(n) == IF n < 0 THEN -1 ELSE 1
\* a <= b for two offsets that are numbers
OffsetLeq(a, b) == a[1] * b[2] * Sign(a[2]) * Sign(b[2]) <= b[1] * a[2] * Sign(a[2]) * Sign(b[2])
OffsetEq(a, b) == ~IsNaN(a) /\ ~IsNaN(b) /\ a[1] * b[2] = b[1] * a[2]

\* Math.round(x) for x = n / d, d # 0: floor(x + 1/2)
MathRound(n, d) ==
    IF d > 0 THEN (2 * n + d) \div (2 * d) ELSE ((0 - 2 * n) - d) \div (0 - 2 * d)

roundOffsetMutant(o) == Offset((o[1] * 100) \div o[2], 100)

\* roundOffset(offset, decimalPoints = 3): mult = 10^(3-1) = 100
roundOffset(o) == Offset(MathRound(o[1] * 100, o[2]), 100)

---------------------------------------------------------------------------
(* util.ts: timing expressions.  A string is the sequence of its           *)
(* characters; a JavaScript number is a fraction <<n, d>> with d > 0, or   *)
(* NaN when d = 0.  A value of type string | number is a record that says   *)
(* which of the two it is.                                                 *)

NaN == Offset(0, 0)
Num(n) == [type |-> "number", number |-> Offset(n, 1), text |-> <<>>, object |-> <<>>]
Str(chars) == [type |-> "string", number |-> NaN, text |-> chars, object |-> <<>>]
Obj(fields) == [type |-> "object", number |-> NaN, text |-> <<>>, object |-> <<fields>>]
Zero == Offset(0, 1)
IsNegative(x) == ~IsNaN(x) /\ x[1] < 0
IsZero(x) == ~IsNaN(x) /\ x[1] = 0
Scale(x, k) == IF IsNaN(x) THEN NaN ELSE Offset(x[1] * k, x[2])
MathFloor(x) == IF IsNaN(x) THEN NaN ELSE Offset(x[1] \div x[2], 1)
\* the number x as whole milliseconds
Millis(x) == x[1] \div x[2]

ONE_SECOND == 1000

Digits == {"0", "1", "2", "3", "4", "5", "6", "7", "8", "9"}
Letters == {"a", "b", "c", "d", "e", "f", "g", "h", "i", "j", "k", "l", "m",
            "n", "o", "p", "q", "r", "s", "t", "u", "v", "w", "x", "y", "z"}
Capitals == {"A", "B", "C", "D", "E", "F", "G", "H", "I", "J", "K", "L", "M",
             "N", "O", "P", "Q", "R", "S", "T", "U", "V", "W", "X", "Y", "Z"}
Blanks == {" "}

DigitValue(c) ==
    CASE c = "0" -> 0 [] c = "1" -> 1 [] c = "2" -> 2 [] c = "3" -> 3 [] c = "4" -> 4
      [] c = "5" -> 5 [] c = "6" -> 6 [] c = "7" -> 7 [] c = "8" -> 8 [] c = "9" -> 9

RECURSIVE Pow10(_)
Pow10(k) == IF k = 0 THEN 1 ELSE 10 * Pow10(k - 1)

RECURSIVE DigitsValue(_)
DigitsValue(ds) ==
    IF ds = <<>> THEN 0
    ELSE 10 * DigitsValue(SubSeq(ds, 1, Len(ds) - 1)) + DigitValue(ds[Len(ds)])

AllIn(str, chars) == \A i \in 1..Len(str) : str[i] \in chars

\* the longest prefix of str made of characters of chars
PrefixIn(str, chars) ==
    LET n == CHOOSE k \in 0..Len(str) :
                 /\ AllIn(SubSeq(str, 1, k), chars)
                 /\ (k < Len(str) => str[k + 1] \notin chars)
    IN SubSeq(str, 1, n)

Rest(str, prefix) == SubSeq(str, Len(prefix) + 1, Len(str))

\* parseFloat, once the sign, the digits before the point and the digits
\* after it are known
FloatOf(negative, whole, decimals) ==
    IF whole = <<>> /\ decimals = <<>> THEN NaN
    ELSE Offset((IF negative THEN 0 - 1 ELSE 1)
                    * (DigitsValue(whole) * Pow10(Len(decimals)) + DigitsValue(decimals)),
                Pow10(Len(decimals)))

\* the digits after the point, of what follows the whole part
DecimalsOf(after) ==
    IF after # <<>> /\ after[1] = "." THEN PrefixIn(Tail(after), Digits) ELSE <<>>

FloatAfter(negative, body, whole) ==
    FloatOf(negative, whole, DecimalsOf(Rest(body, whole)))

FloatSigned(negative, str) ==
    FloatAfter(negative, IF negative THEN Tail(str) ELSE str,
               PrefixIn(IF negative THEN Tail(str) ELSE str, Digits))

\* parseFloat(str) for a str that matches -?[\.\d]+
parseFloat(str) == FloatSigned(str # <<>> /\ str[1] = "-", str)

\* (-?[\.\d]+)
IsNumberText(str) ==
    \/ str # <<>> /\ str[1] = "-" /\ Len(str) > 1 /\ AllIn(Tail(str), Digits \cup {"."})
    \/ str # <<>> /\ str[1] # "-" /\ AllIn(str, Digits \cup {"."})

\* (m?s), with or without the flag i of the regex
IsUnitText(str, ignoreCase) ==
    \/ str \in {<<"s">>, <<"m", "s">>}
    \/ ignoreCase /\ str \in {<<"S">>, <<"M", "S">>, <<"m", "S">>, <<"M", "s">>}

\* \s+
IsBlankText(str) == str # <<>> /\ AllIn(str, Blanks)

EasingTail(word, after) ==
    /\ word # <<>>
    /\ \/ after = <<>>
       \/ Len(after) >= 3 /\ after[1] = "(" /\ after[Len(after)] = ")"

EasingWord(str, word) == EasingTail(word, Rest(str, word))

\* ([-a-z]+(?:\(.+?\))?) with the flag i, up to the end of the string
IsEasingText(str) == EasingWord(str, PrefixIn(str, Letters \cup Capitals \cup {"-"}))

\* where a leading number ends and where the unit after it ends
LeadingCuts(str, ignoreCase) ==
    {ab \in (1..Len(str)) \X (1..Len(str)) :
        /\ ab[1] < ab[2]
        /\ IsNumberText(SubSeq(str, 1, ab[1]))
        /\ IsUnitText(SubSeq(str, ab[1] + 1, ab[2]), ignoreCase)}

TimeAt(str, ab) ==
    <<[number |-> SubSeq(str, 1, ab[1]),
       unit |-> SubSeq(str, ab[1] + 1, ab[2]),
       rest |-> SubSeq(str, ab[2] + 1, Len(str))]>>

TimeIn(str, found) == IF found = {} THEN <<>> ELSE TimeAt(str, CHOOSE x \in found : TRUE)

\* ^(-?[\.\d]+)(m?s): the number and the unit a string starts with,
\* <<>> when it does not start with them
LeadingTime(str, ignoreCase) == TimeIn(str, LeadingCuts(str, ignoreCase))

BlanksOff(str, blanks) == IF blanks = <<>> THEN <<>> ELSE <<Rest(str, blanks)>>

\* \s+ followed by what is left
AfterBlanks(str) == BlanksOff(str, PrefixIn(str, Blanks))

_convertTimeValueToMS(value, unit) ==
    IF unit = <<"s">> THEN Scale(value, ONE_SECOND) ELSE value

\* the groups of the regex of parseTimeExpression: the duration m1 and the
\* optional delay (a group that took no part is <<>>)
TimeGroups(m1, second) ==
    [duration |-> m1.number, durationUnit |-> m1.unit,
     delay |-> IF second = <<>> THEN <<>> ELSE <<second[1].number>>,
     delayUnit |-> IF second = <<>> THEN <<>> ELSE second[1].unit,
     easing |-> <<>>]

\* (?:\s+([-a-z]+(?:\(.+?\))?))?$ on what follows the blanks
MatchEasing(groups, gap) ==
    IF gap # <<>> /\ IsEasingText(gap[1]) THEN <<[groups EXCEPT !.easing = gap[1]]>>
    ELSE <<>>

MatchEnd(groups, afterDelay) ==
    IF afterDelay = <<>> THEN <<groups>> ELSE MatchEasing(groups, AfterBlanks(afterDelay))

\* (?:\s+(-?[\.\d]+)(m?s))? after the duration m1
MatchDelay(m1, second) ==
    MatchEnd(TimeGroups(m1, second), IF second = <<>> THEN m1.rest ELSE second[1].rest)

DelayIn(gap) == IF gap = <<>> THEN <<>> ELSE LeadingTime(gap[1], TRUE)

MatchDuration(first) ==
    IF first = <<>> THEN <<>> ELSE MatchDelay(first[1], DelayIn(AfterBlanks(first[1].rest)))

\* the groups of the regex of parseTimeExpression matched against str:
\* <<>> when str does not match, else the record of the groups
matchTimeExpression(str) == MatchDuration(LeadingTime(str, TRUE))

\* a value the code casts "as number": the number it is
AsNumber(value) == IF value.type = "number" THEN value.number ELSE NaN

TimeValue(matches) ==
    IF matches = <<>> THEN Zero
    ELSE _convertTimeValueToMS(parseFloat(matches[1].number), matches[1].unit)

\* resolveTimingValue(value)
resolveTimingValue(value) ==
    IF value.type = "number" THEN value.number
    ELSE TimeValue(LeadingTime(value.text, FALSE))

\* `${exp}` in a message
Quoted(exp) == IF exp.type = "string" THEN exp.text ELSE <<ToString(exp.number)>>

AnimateTimings(duration, delay, easing) ==
    [duration |-> duration, delay |-> delay, easing |-> easing]

negativeMessages(duration, delay) ==
    (IF IsNegative(duration)
     THEN <<<<"Duration values below 0 are not allowed for this animation step.">>>>
     ELSE <<>>)
    \o (IF IsNegative(delay)
        THEN <<<<"Delay values below 0 are not allowed for this animation step.">>>>
        ELSE <<>>)

\* errors.splice(startIndex, 0, ...) puts the general message first
spliceGeneral(exp, found) ==
    IF found # <<>>
    THEN <<<<"The provided timing value is invalid.">> \o Quoted(exp)>> \o found
    ELSE <<>>

negativeErrorsMutant(exp, duration, delay, allowNegativeValues) ==
    IF IsNegative(duration) /\ IsNegative(delay) /\ ~allowNegativeValues
    THEN <<<<"The provided timing value is invalid.">> \o Quoted(exp)>>
    ELSE <<>>

\* the messages parseTimeExpression adds for a negative duration or delay
negativeErrors(exp, duration, delay, allowNegativeValues) ==
    IF allowNegativeValues THEN <<>>
    ELSE spliceGeneral(exp, negativeMessages(duration, delay))

\* the end of parseTimeExpression: the check of negative values and the
\* timings returned
checkedTimings(exp, errs, allowNegativeValues, duration, delay, easing) ==
    [timings |-> AnimateTimings(duration, delay, easing),
     errors |-> errs \o negativeErrors(exp, duration, delay, allowNegativeValues)]

matchedDuration(m) == _convertTimeValueToMS(parseFloat(m.duration), m.durationUnit)

matchedDelay(m) ==
    IF m.delay # <<>>
    THEN _convertTimeValueToMS(MathFloor(parseFloat(m.delay[1])), m.delayUnit)
    ELSE Zero

\* parseTimeExpression of a string, given the result of exp.match(regex)
parseMatches(exp, errs, allowNegativeValues, matches) ==
    IF matches = <<>>
    THEN [timings |-> AnimateTimings(Zero, Zero, <<>>),
          errors |-> Append(errs, <<"The provided timing value is invalid.">> \o Quoted(exp))]
    ELSE checkedTimings(exp, errs, allowNegativeValues, matchedDuration(matches[1]),
                        matchedDelay(matches[1]), matches[1].easing)

parseTimeExpressionMutant(exp, errs, allowNegativeValues) ==
    IF exp.type = "string"
    THEN [timings |-> AnimateTimings(Zero, Zero, <<>>), errors |-> errs]
    ELSE [timings |-> AnimateTimings(exp.number, Zero, <<>>),
          errors |-> errs \o <<<<"The provided timing value is invalid.">> \o Quoted(exp)>>]

\* parseTimeExpression(exp, errors, allowNegativeValues): the timings returned
\* and the error list afterwards
parseTimeExpression(exp, errs, allowNegativeValues) ==
    IF exp.type = "string"
    THEN parseMatches(exp, errs, allowNegativeValues, matchTimeExpression(exp.text))
    ELSE [timings |-> AnimateTimings(exp.number, Zero, <<>>),
          errors |-> errs \o negativeErrors(exp, exp.number, Zero, allowNegativeValues)]

\* resolveTiming(timings, errors, allowNegativeValues)
resolveTiming(timings, errs, allowNegativeValues) ==
    IF timings.type = "object" /\ "duration" \in DOMAIN timings.object[1]
    THEN [timings |-> timings.object[1], errors |-> errs]
    ELSE parseTimeExpression(timings, errs, allowNegativeValues)

---------------------------------------------------------------------------
(* util.ts: interpolation of $name and ${name} in a value                  *)

WordChars == Letters \cup Capitals \cup Digits \cup {"_"}

DigitChar(d) == CHOOSE c \in Digits : DigitValue(c) = d

RECURSIVE NatText(_)
NatText(n) == IF n < 10 THEN <<DigitChar(n)>> ELSE NatText(n \div 10) \o <<DigitChar(n % 10)>>

\* value.toString(); of a number, when it is whole or NaN
toString(value) ==
    IF value.type = "string" THEN value.text
    ELSE IF IsNaN(value.number) THEN <<"N", "a", "N">>
    ELSE (IF value.number[1] < 0 THEN <<"-">> ELSE <<>>)
         \o NatText((IF value.number[1] < 0 THEN 0 - value.number[1] ELSE value.number[1])
                    \div value.number[2])

SimpleRef(name) == <<[exp |-> <<"$">> \o name, varName |-> <<"$">> \o name]>>

\* SIMPLE_STYLE_INTERPOLATION_REGEX /\$\w+/ at the start of str: the text
\* matched and the name of the variable, or <<>>
SimpleMatch(str) ==
    IF Len(str) >= 2 /\ str[1] = "$" /\ str[2] \in WordChars
    THEN SimpleRef(PrefixIn(Tail(str), WordChars))
    ELSE <<>>

AdvancedRef(str, inner) ==
    IF inner # <<>> /\ Len(str) >= Len(inner) + 3 /\ str[Len(inner) + 3] = "}"
    THEN <<[exp |-> SubSeq(str, 1, Len(inner) + 3), varName |-> <<"$">> \o inner]>>
    ELSE <<>>

\* ADVANCED_STYLE_INTERPOLATION_REGEX /\$\{([-\w\s]+)\}/ at the start of str
AdvancedMatch(str) ==
    IF Len(str) >= 4 /\ str[1] = "$" /\ str[2] = "{"
    THEN AdvancedRef(str, PrefixIn(SubSeq(str, 3, Len(str)), WordChars \cup Blanks \cup {"-"}))
    ELSE <<>>

MatchAt(advanced, str) == IF advanced THEN AdvancedMatch(str) ELSE SimpleMatch(str)

replacementMutant(locals, m) ==
    IF m.varName \in DOMAIN locals
    THEN [text |-> toString(locals[m.varName]), errors |-> <<>>]
    ELSE [text |-> m.exp, errors |-> <<>>]

\* the callback of str.replace in matchAndReplace, on the match m
replacement(locals, m) ==
    IF m.varName \in DOMAIN locals
    THEN [text |-> toString(locals[m.varName]), errors |-> <<>>]
    ELSE [text |-> <<>>,
          errors |-> <<Message("Please provide a value for the animation variable", m.exp)>>]

\* what str.replace puts for a stretch of the string, then the rest
Replaced(by, rest) == [text |-> by.text \o rest.text, errors |-> by.errors \o rest.errors]

RECURSIVE matchAndReplace(_, _, _)
RECURSIVE replaceAt(_, _, _, _)

\* str.replace at the start of str, where the regex matches m or nothing
replaceAt(advanced, str, locals, m) ==
    Replaced(IF m = <<>> THEN [text |-> <<Head(str)>>, errors |-> <<>>]
             ELSE replacement(locals, m[1]),
             matchAndReplace(advanced,
                             IF m = <<>> THEN Tail(str) ELSE Rest(str, m[1].exp), locals))

\* matchAndReplace(regex, prefixLength, suffixLength, str, locals, errors):
\* the text after the replacements and the messages pushed
matchAndReplace(advanced, str, locals) ==
    IF str = <<>> THEN [text |-> <<>>, errors |-> <<>>]
    ELSE replaceAt(advanced, str, locals, MatchAt(advanced, str))

\* the end of interpolateLocals: the original value when nothing changed
interpolatedValue(value, errs, original, simple, advanced) ==
    [value |-> IF advanced.text = original THEN value ELSE Str(advanced.text),
     errors |-> errs \o simple.errors \o advanced.errors]

advancedPass(value, locals, errs, original, simple) ==
    interpolatedValue(value, errs, original, simple, matchAndReplace(TRUE, simple.text, locals))

simplePass(value, locals, errs, original) ==
    advancedPass(value, locals, errs, original, matchAndReplace(FALSE, original, locals))

\* interpolateLocals(value, locals, errors): the value returned and the
\* error list afterwards
interpolateLocals(value, locals, errs) == simplePass(value, locals, errs, toString(value))

\* the style values and names of the timeline model, spelled out
Spelling == ("0" :> <<"0">>) @@ ("1" :> <<"1">>) @@ ("9" :> <<"9">>) @@ ("" :> <<>>)
            @@ ("*" :> <<"*">>) @@ ("!" :> <<"!">>) @@ ("$w" :> <<"$", "w">>)
            @@ ("$x" :> <<"$", "x">>)
Spelled(chars) == CHOOSE v \in DOMAIN Spelling : Spelling[v] = chars

SpelledLocals(locals) ==
    [n \in {Spelling[k] : k \in DOMAIN locals \cap VarRefs} |->
        Str(Spelling[locals[Spelled(n)]])]

StyleOf(r) == [value |-> Spelled(r.value.text), errors |-> r.errors]

\* interpolateLocals(val, locals, errors) on a style value of a timeline
interpolateStyle(value, locals) ==
    StyleOf(interpolateLocals(Str(Spelling[value]), SpelledLocals(locals), <<>>))

---------------------------------------------------------------------------
(* TimelineBuilder                                                         *)

\* new TimelineBuilder(element, startTime, lookup): the object after the
\* constructor ran _loadKeyframe; globalRef names the timeline whose local
\* style object is this builder's _globalTimelineStyles.
NewTimeline(element, startTime, globalRef) ==
    [ sub |-> FALSE,
      element |-> element,
      startTime |-> startTime,
      duration |-> 0,
      easing |-> NoEasing,
      previousKeyframe |-> <<>>,          \* <<>>: an object that is no keyframe of the Map
      currentKeyframe |-> 0,              \* key of _currentKeyframe
      keyframes |-> (0 :> EmptyMap),      \* _keyframes: time -> own properties
      order |-> <<0>>,                    \* insertion order of _keyframes
      styleSummary |-> EmptyMap,          \* prop -> [time, value]
      localTimelineStyles |-> EmptyMap,
      globalRef |-> globalRef,
      backFill |-> EmptyMap,
      currentEmptyStepKeyframe |-> <<>>,  \* <<>> is null, <<k>> the keyframe of key k
      instruction |-> <<>> ]              \* SubTimelineBuilder only

currentTime(tl) == tl.startTime + tl.duration

containsAnimation(tl) ==
    IF tl.sub THEN Len(tl.instruction[1].keyframes) > 1
    ELSE Cardinality(DOMAIN tl.keyframes) > 1

getCurrentStyleProperties(tl) == DOMAIN tl.keyframes[tl.currentKeyframe]

allowOnlyTimelineStylesMutant(tl) == tl.currentEmptyStepKeyframe = <<>>

allowOnlyTimelineStyles(tl) == tl.currentEmptyStepKeyframe # <<tl.currentKeyframe>>

_loadKeyframe(tl) ==
    LET isNew == tl.duration \notin DOMAIN tl.keyframes IN
    [tl EXCEPT !.previousKeyframe = <<tl.currentKeyframe>>,
               !.currentKeyframe = tl.duration,
               !.keyframes = IF isNew THEN (tl.duration :> EmptyMap) @@ @ ELSE @,
               !.order = IF isNew THEN Append(@, tl.duration) ELSE @]

forwardFrame(tl) == _loadKeyframe([tl EXCEPT !.duration = @ + 1])

forwardTimeMutant(tl, time) == [tl EXCEPT !.duration = time]

forwardTime(tl, time) == _loadKeyframe([tl EXCEPT !.duration = time])

delayNextStep(tl, delay) ==
    IF tl.duration = 0
    THEN [tl EXCEPT !.startTime = @ + delay]
    ELSE forwardTime(tl, currentTime(tl) + delay)

\* the default of the parameter of fork(element, currentTime = 0); an
\* argument that is not passed is <<>>
forkDefault(atTime) == IF atTime = <<>> THEN 0 ELSE atTime[1]

\* fork(element, currentTime): the new builder and the lookup after its
\* constructor; `at` is the index the new builder gets in `timelines`.
forkStart(tl, newTime) == IF newTime # 0 THEN newTime ELSE currentTime(tl)

forkMutant(tl, lk, element, newTime, at) ==
    [tl |-> NewTimeline(element, forkStart(tl, newTime), at),
     lookup |-> IF element \in DOMAIN lk THEN lk ELSE Put(lk, element, at)]

fork(tl, lk, element, newTime, at) ==
    IF element \in DOMAIN lk
    THEN [tl |-> NewTimeline(element, forkStart(tl, newTime), lk[element]), lookup |-> lk]
    ELSE [tl |-> NewTimeline(element, forkStart(tl, newTime), at),
          lookup |-> Put(lk, element, at)]

\* _updateStyle on timeline i of the heap tls
_updateStyle(tls, i, prop, value) ==
    IF prop # "easing"
    THEN LET g == tls[i].globalRef
             t1 == [tls EXCEPT ![i].localTimelineStyles = Put(@, prop, value)]
             t2 == [t1 EXCEPT ![g].localTimelineStyles = Put(@, prop, value)]
         IN [t2 EXCEPT ![i].styleSummary =
                 Put(@, prop, [time |-> currentTime(tls[i]), value |-> value])]
    ELSE tls

globalStyles(tls, i) == tls[tls[i].globalRef].localTimelineStyles

\* flattenStyles(input, allStyles): a token is the wildcard or a style map
Wildcard == [wild |-> TRUE, map |-> EmptyMap]
Token(m) == [wild |-> FALSE, map |-> m]

RECURSIVE flattenStyles(_, _, _)
flattenStyles(input, allStyles, styles) ==
    IF input = <<>> THEN styles
    ELSE LET token == Head(input) IN
         flattenStyles(Tail(input), allStyles,
             IF token.wild
             THEN [p \in DOMAIN allStyles |-> AUTO_STYLE] @@ styles
             ELSE copyObj(token.map, styles))

\* the empty-step branch of setStyles, one property at a time
RECURSIVE emptyStepProps(_, _, _)
emptyStepProps(tls, i, props) ==
    IF props = {} THEN tls
    ELSE LET prop == CHOOSE p \in props : TRUE
             gv == globalStyles(tls, i)[prop]
             t1 == [tls EXCEPT ![i].backFill =
                        Put(@, prop, IF Falsy(gv) THEN AUTO_STYLE ELSE gv),
                     ![i].keyframes[tls[i].currentKeyframe] = Put(@, prop, AUTO_STYLE)]
         IN emptyStepProps(t1, i, props \ {prop})

\* the explicit-styles branch of setStyles, one property at a time;
\* returns the heap and the errors of interpolation
setStylesBackFill(tls, i, prop) ==
    IF ~TruthyRead(ReadProto(tls[i].localTimelineStyles, tls[i].backFill, prop))
    THEN Put(tls[i].backFill, prop,
             IF prop \in DOMAIN globalStyles(tls, i)
             THEN globalStyles(tls, i)[prop] ELSE AUTO_STYLE)
    ELSE tls[i].backFill

\* the body of the loop of setStyles for prop, val the interpolated value
explicitStyleProp(tls, i, prop, val) ==
    _updateStyle([tls EXCEPT ![i].keyframes[tls[i].currentKeyframe] = Put(@, prop, val),
                             ![i].backFill = setStylesBackFill(tls, i, prop)],
                 i, prop, val)

RECURSIVE explicitStyleProps(_, _, _, _, _, _)
RECURSIVE explicitStyleNext(_, _, _, _, _, _, _, _)

explicitStyleNext(tls, i, props, styles, locals, errs, prop, r) ==
    explicitStyleProps(explicitStyleProp(tls, i, prop, r.value), i, props \ {prop},
                       styles, locals, errs \o r.errors)

explicitStylePick(tls, i, props, styles, locals, errs, prop) ==
    explicitStyleNext(tls, i, props, styles, locals, errs, prop,
                      interpolateStyle(styles[prop], locals))

explicitStyleProps(tls, i, props, styles, locals, errs) ==
    IF props = {} THEN [tls |-> tls, errors |-> errs]
    ELSE explicitStylePick(tls, i, props, styles, locals, errs, CHOOSE p \in props : TRUE)

\* the end of the explicit-styles branch: the keyframe takes the local styles
\* it lacks
explicitStylesEnd(i, r) ==
    [tls |-> [r.tls EXCEPT ![i].keyframes[r.tls[i].currentKeyframe] =
                  @ @@ r.tls[i].localTimelineStyles],
     errors |-> r.errors]

explicitStyles(tls, i, styles, locals) ==
    explicitStylesEnd(i, explicitStyleProps(tls, i, DOMAIN styles, styles, locals, <<>>))

\* setStyles(input, easing, treatAsEmptyStep, errors, locals) on timeline i
setStyles(tls, i, input, easing, treatAsEmptyStep, locals) ==
    LET prev == tls[i].previousKeyframe
        t0 == IF easing # NoEasing /\ prev # <<>>
              THEN [tls EXCEPT ![i].keyframes[prev[1]] = Put(@, "easing", easing)]
              ELSE tls
    IN IF treatAsEmptyStep
       THEN LET t1 == emptyStepProps(t0, i, DOMAIN globalStyles(t0, i)) IN
            [tls |-> [t1 EXCEPT ![i].currentEmptyStepKeyframe = <<t1[i].currentKeyframe>>],
             errors |-> <<>>]
       ELSE explicitStyles(t0, i, flattenStyles(input, globalStyles(t0, i), EmptyMap), locals)

snapshotCurrentStyles(tl) ==
    [tl EXCEPT !.keyframes[tl.currentKeyframe] = copyObj(tl.localTimelineStyles, @)]

\* whether merge adopts other's entry d1 over this timeline's entry for prop
mergeAdopts(summary, prop, d1) ==
    prop \notin DOMAIN summary \/ d1.time > summary[prop].time

RECURSIVE mergeProps(_, _, _, _)
mergeProps(tls, i, other, props) ==
    IF props = {} THEN tls
    ELSE LET prop == CHOOSE p \in props : TRUE
             d1 == other[prop]
         IN mergeProps(IF mergeAdopts(tls[i].styleSummary, prop, d1)
                       THEN _updateStyle(tls, i, prop, d1.value) ELSE tls,
                       i, other, props \ {prop})

\* this = timeline i, timeline = timeline j
mergeTimelineCollectedStyles(tls, i, j) ==
    mergeProps(tls, i, tls[j].styleSummary, DOMAIN tls[j].styleSummary)

\* createTimelineInstruction(...)
createTimelineInstruction(element, keyframes, preProps, postProps, duration, delay, easing, stretch) ==
    [ element |-> element, keyframes |-> keyframes, preStyleProps |-> preProps,
      postStyleProps |-> postProps, duration |-> duration, delay |-> delay,
      easing |-> easing, stretchStartingKeyframe |-> stretch ]

\* a finished keyframe: the style properties and the 'offset' entry
Keyframe(styles, offset) == [styles |-> styles, offset |-> offset]

keyframeOffset(time, duration) == Offset(time, duration)

finalKeyframes(tl) ==
    [k \in 1..Len(tl.order) |->
        Keyframe(copyStylesProto(tl.keyframes[tl.order[k]], tl.backFill),
                 keyframeOffset(tl.order[k], tl.duration))]

PropsWithValue(kfs, v) ==
    {p \in UNION {DOMAIN kfs[k].styles : k \in 1..Len(kfs)} :
        \E k \in 1..Len(kfs) : p \in DOMAIN kfs[k].styles /\ kfs[k].styles[p] = v}

TimelineBuildKeyframes(tl) ==
    LET kfs == finalKeyframes(tl) IN
    createTimelineInstruction(tl.element, kfs, PropsWithValue(kfs, PRE_STYLE),
        PropsWithValue(kfs, AUTO_STYLE), tl.duration, tl.startTime, tl.easing, FALSE)

---------------------------------------------------------------------------
(* SubTimelineBuilder                                                      *)

\* AnimateTimings; a component that is undefined/null is <<>>, else <<v>>
Timings(duration, delay, easing) == [duration |-> duration, delay |-> delay, easing |-> easing]

\* new SubTimelineBuilder(element, keyframes, preStyleProps, postStyleProps,
\* timings, stretch): super(element, timings.delay) with a lookup of its own
NewSubTimeline(instruction, timings, at) ==
    [NewTimeline(instruction.element, timings.delay, at) EXCEPT
        !.sub = TRUE,
        !.instruction = <<[instruction EXCEPT !.duration = timings.duration,
                                              !.delay = timings.delay,
                                              !.easing = timings.easing]>>]

\* the keyframes 1..n-1 of the instruction, warped by the stretch
warpedOffsetMutant(old, duration, delay) ==
    roundOffset(Offset(old[1] * duration, old[2] * (duration + delay)))

warpedOffset(old, duration, delay) ==
    roundOffset(Offset(delay * old[2] + old[1] * duration, old[2] * (duration + delay)))

SubBuildKeyframes(tl) ==
    LET ins == tl.instruction[1]
        keyframes == ins.keyframes
        delay == ins.delay
        duration == ins.duration
        totalTime == duration + delay
    IN IF ins.stretchStartingKeyframe /\ delay # 0
       THEN LET newFirstKeyframe == Keyframe(keyframes[1].styles, Offset(0, 1))
                oldFirstKeyframe ==
                    Keyframe(keyframes[1].styles, roundOffset(Offset(delay, totalTime)))
                rest == [k \in 1..(Len(keyframes) - 1) |->
                            Keyframe(keyframes[k + 1].styles,
                                     warpedOffset(keyframes[k + 1].offset, duration, delay))]
            IN createTimelineInstruction(tl.element,
                   <<newFirstKeyframe, oldFirstKeyframe>> \o rest,
                   ins.preStyleProps, ins.postStyleProps, totalTime, 0, NoEasing, TRUE)
       ELSE createTimelineInstruction(tl.element, keyframes, ins.preStyleProps,
                ins.postStyleProps, duration, delay, ins.easing, TRUE)

\* timeline.buildKeyframes(), dispatched on the class of the builder
buildKeyframes(tl) == IF tl.sub THEN SubBuildKeyframes(tl) ELSE TimelineBuildKeyframes(tl)

---------------------------------------------------------------------------
(* AnimationTimelineContext                                                *)
(* The operators below act on a world W: the heap of timelines, the style  *)
(* lookup, the contexts, the error list and the sub-instruction map.       *)

World == [timelines |-> timelines, lookup |-> lookup, ctxs |-> ctxs, errors |-> errors,
          subInstructions |-> subInstructions]

Max(a, b) == IF a >= b THEN a ELSE b

DEFAULT_NOOP_PREVIOUS_NODE == "Noop"

\* new AnimationTimelineContext(element, subInstructions, errors, timelines, initialTimeline)
\* locals refers to an object of bindings: the one made for the context of
\* that index, held in localsObject
NewContext(element, tl, at) ==
    [ element |-> element,
      currentTimeline |-> tl,
      currentAnimateTimings |-> <<>>,
      previousNode |-> DEFAULT_NOOP_PREVIOUS_NODE,
      subContextCount |-> 0,
      locals |-> at,
      localsObject |-> EmptyMap,
      currentQueryIndex |-> 0,
      currentQueryTotal |-> 0,
      currentStaggerTime |-> 0,
      parentContext |-> 0 ]

\* the current TimelineBuilder of context c
TL(W, c) == W.timelines[W.ctxs[c].currentTimeline]

\* the bindings that context c of the contexts cs reads as this.locals
LocalsIn(cs, c) == cs[cs[c].locals].localsObject
Locals(W, c) == LocalsIn(W.ctxs, c)

\* W with the current timeline of context c replaced by f(that timeline)
OnTimeline(W, c, tl) == [W EXCEPT !.timelines[W.ctxs[c].currentTimeline] = tl]

\* updateLocals(newLocals, skipIfExists); newLocals = <<>> is null
\* the two ifs at the end of updateLocals: duration and delay resolved
resolvedLocals(copied, nl) ==
    [name \in DOMAIN copied \cup (DOMAIN nl \cap {"duration", "delay"}) |->
        IF name \in DOMAIN nl \cap {"duration", "delay"}
        THEN resolveTimingValue(nl[name]) ELSE copied[name]]

updateLocals(locals, newLocals, skipIfExists) ==
    IF newLocals = <<>> THEN locals
    ELSE resolvedLocals(IF ~skipIfExists \/ FALSE   \* !newLocals.hasOwnProperty(name) of a key of newLocals
                        THEN newLocals[1] @@ locals ELSE locals,
                        newLocals[1])

\* context.updateLocals(newLocals, skipIfExists) on context c
ctxUpdateLocals(W, c, newLocals, skipIfExists) ==
    [W EXCEPT !.ctxs[W.ctxs[c].locals].localsObject = updateLocals(@, newLocals, skipIfExists)]

_copyLocalsMutant(W, c, at) == [ref |-> W.ctxs[c].locals, object |-> EmptyMap]

\* _copyLocals() on context c: a new object, the one of index at
_copyLocals(W, c, at) ==
    [ref |-> at,
     object |-> [name \in DOMAIN Locals(W, c) \cap VarRefs |-> Locals(W, c)[name]]]

\* createSubContext(locals, element, newTime) on context c; the new context
\* is the last of W.ctxs.  element = <<>> and newTime = 0 when not passed.
createSubContext(W, c, locals, element, newTime) ==
    LET this == W.ctxs[c]
        target == IF element # <<>> THEN element[1] ELSE this.element
        at == Len(W.timelines) + 1
        f == fork(TL(W, c), W.lookup, target, newTime, at)
        new == Len(W.ctxs) + 1
        copy == _copyLocals(W, c, new)
        context == [NewContext(target, at, new) EXCEPT
                       !.previousNode = this.previousNode,
                       !.currentAnimateTimings = this.currentAnimateTimings,
                       !.locals = copy.ref,
                       !.localsObject = copy.object,
                       !.currentQueryIndex = this.currentQueryIndex,
                       !.currentQueryTotal = this.currentQueryTotal,
                       !.parentContext = c]
        W1 == [W EXCEPT !.timelines = Append(@, f.tl),
                        !.lookup = f.lookup,
                        !.ctxs = Append(@, context)]
    IN [ctxUpdateLocals(W1, new, locals, FALSE) EXCEPT !.ctxs[c].subContextCount = @ + 1]

\* transformIntoNewTimeline(newTime) on context c
transformIntoNewTimeline(W, c, newTime) ==
    LET at == Len(W.timelines) + 1
        f == fork(TL(W, c), W.lookup, W.ctxs[c].element, newTime, at)
    IN [W EXCEPT !.timelines = Append(@, f.tl),
                 !.lookup = f.lookup,
                 !.ctxs[c].previousNode = DEFAULT_NOOP_PREVIOUS_NODE,
                 !.ctxs[c].currentTimeline = at]

\* appendInstructionToTimeline(instruction, timings) on context c; returns
\* the world and the updated timings
updatedTimings(tl, instruction, timings) ==
    Timings(IF timings.duration # <<>> THEN timings.duration[1] ELSE instruction.duration,
            currentTime(tl) + (IF timings.delay # <<>> THEN timings.delay[1] ELSE 0)
                + instruction.delay,
            IF timings.easing # <<>> THEN timings.easing[1] ELSE instruction.easing)

appendInstructionToTimeline(W, c, instruction, timings) ==
    LET ut == updatedTimings(TL(W, c), instruction, timings)
        at == Len(W.timelines) + 1
    IN [W EXCEPT !.timelines = Append(@, NewSubTimeline(instruction, ut, at))]

incrementTimeMutant(W, c, time) == OnTimeline(W, c, forwardTime(TL(W, c), time))

\* incrementTime(time) on context c
incrementTime(W, c, time) ==
    OnTimeline(W, c, forwardTime(TL(W, c), TL(W, c).duration + time))

\* context.delayNextStep(delay): negative delays are not yet supported
ctxDelayNextStepMutant(W, c, delay) ==
    IF ~IsNaN(delay) THEN OnTimeline(W, c, delayNextStep(TL(W, c), Millis(delay))) ELSE W

ctxDelayNextStep(W, c, delay) ==
    IF ~IsNaN(delay) /\ delay[1] > 0
    THEN OnTimeline(W, c, delayNextStep(TL(W, c), Millis(delay))) ELSE W

\* timeline.setStyles(...) on the current timeline of c, errors appended
styled(W, r) == [W EXCEPT !.timelines = r.tls, !.errors = @ \o r.errors]

ctxSetStyles(W, c, input, easing, treatAsEmptyStep, locals) ==
    styled(W, setStyles(W.timelines, W.ctxs[c].currentTimeline, input, easing,
                        treatAsEmptyStep, locals))

forwardFrameAndSnapshot(W, c) ==
    OnTimeline(W, c, snapshotCurrentStyles(forwardFrame(TL(W, c))))

---------------------------------------------------------------------------
(* AST nodes                                                               *)

StyleAst(styles, easing, isEmptyStep) ==
    [type |-> "Style", styles |-> styles, easing |-> easing, isEmptyStep |-> isEmptyStep]
TimingAst(duration, delay, easing) == Timings(duration, delay, easing)
AnimateAst(timings, style) == [type |-> "Animate", timings |-> timings, style |-> style]
KeyframeStep(offset, styles, easing) == [offset |-> offset, styles |-> styles, easing |-> easing]
KeyframesAst(steps) == [type |-> "Keyframes", styles |-> steps]
SequenceAst(steps, locals) == [type |-> "Sequence", steps |-> steps, locals |-> locals]
GroupAst(steps, locals) == [type |-> "Group", steps |-> steps, locals |-> locals]
\* found: what querySelectorAll(selector) returns on the queried element
QueryAst(found, multi, includeSelf, locals, animation) ==
    [type |-> "Query", found |-> found, multi |-> multi, includeSelf |-> includeSelf,
     locals |-> locals, animation |-> animation]
ReferenceAst(locals, animation) == [type |-> "Reference", locals |-> locals, animation |-> animation]
StaggerAst(timings, animation) == [type |-> "Stagger", timings |-> timings, animation |-> animation]
AnimateChildAst(locals) == [type |-> "AnimateChild", locals |-> locals]

---------------------------------------------------------------------------
(* AnimationTimelineBuilderVisitor: the handlers that make no recursive    *)
(* visit, as functions of the world                                        *)

SetPrevious(W, c, type) == [W EXCEPT !.ctxs[c].previousNode = type]

visitStyleMutant(W, c, node) ==
    LET cat == W.ctxs[c].currentAnimateTimings
        easing == IF cat # <<>> /\ cat[1].easing # NoEasing THEN cat[1].easing ELSE node.easing
    IN SetPrevious(ctxSetStyles(W, c, node.styles, easing, node.isEmptyStep, Locals(W, c)),
                   c, "Style")

\* visitStyle(ast, context)
visitStyle(W, c, node) ==
    LET cat == W.ctxs[c].currentAnimateTimings
        W1 == IF cat = <<>> /\ W.ctxs[c].previousNode = "Animate"
              THEN OnTimeline(W, c, forwardFrame(TL(W, c))) ELSE W
        easing == IF cat # <<>> /\ cat[1].easing # NoEasing THEN cat[1].easing ELSE node.easing
        W2 == ctxSetStyles(W1, c, node.styles, easing, node.isEmptyStep, Locals(W1, c))
    IN SetPrevious(W2, c, "Style")

\* step.offset * duration, the offset being a fraction of the duration
offsetTime(offset, duration) == (offset[1] * duration) \div offset[2]

RECURSIVE keyframeSteps(_, _, _, _)
keyframeSteps(W, inner, steps, duration) ==
    IF steps = <<>> THEN W
    ELSE LET step == Head(steps)
             W1 == OnTimeline(W, inner,
                       forwardTime(TL(W, inner), offsetTime(step.offset, duration)))
             W2 == ctxSetStyles(W1, inner, step.styles, step.easing, FALSE,
                                Locals(W1, inner))
         IN keyframeSteps(W2, inner, Tail(steps), duration)

\* the start of the timeline that follows a keyframes() animation
keyframesNextStart(tl, duration) == tl.duration + duration

\* visitKeyframes(ast, context)
visitKeyframes(W, c, node) ==
    LET cat == W.ctxs[c].currentAnimateTimings[1]
        nextStart == keyframesNextStart(TL(W, c), cat.duration)
        W1 == createSubContext(W, c, <<>>, <<>>, 0)
        inner == Len(W1.ctxs)
        innerTimeline == W1.ctxs[inner].currentTimeline
        W2 == [W1 EXCEPT !.timelines[innerTimeline].easing = cat.easing]
        W3 == keyframeSteps(W2, inner, node.styles, cat.duration)
        W4 == [W3 EXCEPT !.timelines = mergeTimelineCollectedStyles(
                             @, W3.ctxs[c].currentTimeline, innerTimeline)]
        W5 == transformIntoNewTimeline(W4, c, nextStart)
    IN SetPrevious(W5, c, "Keyframes")

\* visitTiming(ast, context) for a TimingAst that is not dynamic
visitTiming(timings) == Timings(timings.duration, timings.delay, timings.easing)

\* visitAnimate(ast, context)
visitAnimate(W, c, node) ==
    LET timings == visitTiming(node.timings)
        W1 == [W EXCEPT !.ctxs[c].currentAnimateTimings = <<timings>>]
        W2 == IF timings.delay # 0
              THEN LET Wd == incrementTime(W1, c, timings.delay) IN
                   OnTimeline(Wd, c, snapshotCurrentStyles(TL(Wd, c)))
              ELSE W1
        W3 == IF node.style.type = "Keyframes"
              THEN visitKeyframes(W2, c, node.style)
              ELSE visitStyle(incrementTime(W2, c, timings.duration), c, node.style)
    IN SetPrevious([W3 EXCEPT !.ctxs[c].currentAnimateTimings = <<>>], c, "Animate")

\* _visitSubInstructions(instructions, context): the world and furthestTime
RECURSIVE appendInstructions(_, _, _, _, _)
appendInstructions(W, c, instructions, timings, furthestTime) ==
    IF instructions = <<>> THEN [W |-> W, furthestTime |-> furthestTime]
    ELSE LET ut == updatedTimings(TL(W, c), Head(instructions), timings)
             W1 == appendInstructionToTimeline(W, c, Head(instructions), timings)
         IN appendInstructions(W1, c, Tail(instructions), timings,
                               Max(furthestTime, ut.duration + ut.delay))

Opt(locals, name) == IF name \in DOMAIN locals THEN <<locals[name]>> ELSE <<>>
\* a duration or delay of the locals, in whole milliseconds
OptMillis(locals, name) == IF name \in DOMAIN locals THEN <<Millis(locals[name])>> ELSE <<>>

_visitSubInstructionsMutant(W, c, instructions) ==
    LET locals == Locals(W, c)
        startTime == currentTime(TL(W, c))
    IN appendInstructions(W, c, instructions,
           Timings(OptMillis(locals, "duration"), OptMillis(locals, "delay"),
                   Opt(locals, "easing")), startTime)

_visitSubInstructions(W, c, instructions) ==
    LET locals == Locals(W, c)
        startTime == currentTime(TL(W, c))
        duration == Opt(locals, "duration")
    IN IF duration = <<>> \/ ~IsZero(duration[1])
       THEN appendInstructions(W, c, instructions,
                Timings(OptMillis(locals, "duration"), OptMillis(locals, "delay"),
                        Opt(locals, "easing")), startTime)
       ELSE [W |-> W, furthestTime |-> startTime]

\* visitAnimateChild(ast, context); subInstructions.consume(element) hands
\* out the instructions of an element once
visitAnimateChild(W, c, node) ==
    LET element == W.ctxs[c].element IN
    IF element \in DOMAIN W.subInstructions
    THEN LET elementInstructions == W.subInstructions[element]
             W0 == [W EXCEPT !.subInstructions =
                        [e \in DOMAIN @ \ {element} |-> @[e]]]
             W1 == createSubContext(W0, c, node.locals, <<>>, 0)
             innerContext == Len(W1.ctxs)
             startTime == currentTime(TL(W1, c))
             r == _visitSubInstructions(W1, innerContext, elementInstructions)
             W2 == IF startTime # r.furthestTime
                   THEN transformIntoNewTimeline(r.W, c, r.furthestTime) ELSE r.W
         IN SetPrevious(W2, c, "AnimateChild")
    ELSE SetPrevious(W, c, "AnimateChild")

invokeQueryMutant(rootElement, found, multi, includeSelf, optional) ==
    LET results == IF includeSelf THEN <<rootElement>> \o found ELSE found
    IN [results |-> results,
        errors |-> IF results = <<>>
                   THEN <<Message("returned zero elements", <<"queryAll">>)>> ELSE <<>>]

\* invokeQuery(rootElement, selector, originalSelector, multi, includeSelf, optional, errors)
invokeQuery(rootElement, found, multi, includeSelf, optional) ==
    LET self == IF includeSelf THEN <<rootElement>> ELSE <<>>
        results == IF multi THEN self \o found
                   ELSE IF self = <<>> /\ found # <<>> THEN <<found[1]>>
                   ELSE self
    IN [results |-> results,
        errors |-> IF ~optional /\ results = <<>>
                   THEN <<Message("returned zero elements",
                                  <<IF multi THEN "queryAll" ELSE "query">>)>>
                   ELSE <<>>]

---------------------------------------------------------------------------
(* The traversal as a state machine.  `stack` holds the work that is left, *)
(* head first: a node to visit on a context, or the rest of a handler that *)
(* waits for the visit of a child to return.                               *)

Visit(node, c) == [op |-> "visit", node |-> node, ctx |-> c]

Top == Head(stack)

Visiting(type) ==
    /\ phase = "visit"
    /\ stack # <<>>
    /\ Top.op = "visit"
    /\ Top.node.type = type

Waiting(op) ==
    /\ phase = "visit"
    /\ stack # <<>>
    /\ Top.op = op

Apply(W) ==
    /\ timelines' = W.timelines
    /\ lookup' = W.lookup
    /\ ctxs' = W.ctxs
    /\ errors' = W.errors
    /\ subInstructions' = W.subInstructions

Inputs == <<ast, startingStyles, finalStyles, rootLocals>>

NoCall == [method |-> "none"]

\* buildKeyframes, up to ast.visit(this, context)
BuildKeyframesStart ==
    /\ phase = "start"
    /\ Apply(ctxSetStyles(World, 1, <<Token(startingStyles)>>, NoEasing, FALSE, rootLocals))
    /\ stack' = <<Visit(ast, 1)>>
    /\ phase' = "visit"
    /\ UNCHANGED <<Inputs, transition, Apart, output, calls, lastCall>>

VisitStyle ==
    /\ Visiting("Style")
    /\ Apply(visitStyle(World, Top.ctx, Top.node))
    /\ stack' = Tail(stack)
    /\ UNCHANGED <<Inputs, transition, Apart, output, phase, calls, lastCall>>

VisitAnimate ==
    /\ Visiting("Animate")
    /\ Apply(visitAnimate(World, Top.ctx, Top.node))
    /\ stack' = Tail(stack)
    /\ UNCHANGED <<Inputs, transition, Apart, output, phase, calls, lastCall>>

VisitAnimateChild ==
    /\ Visiting("AnimateChild")
    /\ Apply(visitAnimateChild(World, Top.ctx, Top.node))
    /\ stack' = Tail(stack)
    /\ UNCHANGED <<Inputs, transition, Apart, output, phase, calls, lastCall>>

\* visitReference, up to the visit of the animation
VisitReference ==
    /\ Visiting("Reference")
    /\ Apply(ctxUpdateLocals(World, Top.ctx, Top.node.locals, TRUE))
    /\ stack' = <<Visit(Top.node.animation, Top.ctx), [op |-> "referenceEnd", ctx |-> Top.ctx]>>
                \o Tail(stack)
    /\ UNCHANGED <<Inputs, transition, Apart, output, phase, calls, lastCall>>

\* visitReference, after the animation
ReferenceEnd ==
    /\ Waiting("referenceEnd")
    /\ Apply(SetPrevious(World, Top.ctx, "Reference"))
    /\ stack' = Tail(stack)
    /\ UNCHANGED <<Inputs, transition, Apart, output, phase, calls, lastCall>>

\* visitSequence, up to the visit of the steps
VisitSequence ==
    /\ Visiting("Sequence")
    /\ LET c == Top.ctx
           node == Top.node
           W1 == IF ctxs[c].previousNode = "Style"
                 THEN SetPrevious(forwardFrameAndSnapshot(World, c), c,
                                  DEFAULT_NOOP_PREVIOUS_NODE)
                 ELSE World
           W2 == IF node.locals # <<>>
                 THEN LET Wf == transformIntoNewTimeline(
                                    createSubContext(W1, c, node.locals, <<>>, 0), c, 0)
                      IN IF "delay" \in DOMAIN node.locals[1]
                         THEN ctxDelayNextStep(Wf, c, AsNumber(node.locals[1]["delay"]))
                         ELSE Wf
                 ELSE W1
       IN /\ Apply(W2)
          /\ stack' = [k \in 1..Len(node.steps) |-> Visit(node.steps[k], c)]
                      \o <<[op |-> "sequenceEnd", ctx |-> c,
                            subContextCount |-> ctxs[c].subContextCount]>>
                      \o Tail(stack)
    /\ UNCHANGED <<Inputs, transition, Apart, output, phase, calls, lastCall>>

\* visitSequence, after the steps
SequenceEnd ==
    /\ Waiting("sequenceEnd")
    /\ LET c == Top.ctx
           W1 == IF ctxs[c].subContextCount > Top.subContextCount
                 THEN transformIntoNewTimeline(World, c, 0) ELSE World
       IN Apply(SetPrevious(W1, c, "Sequence"))
    /\ stack' = Tail(stack)
    /\ UNCHANGED <<Inputs, transition, Apart, output, phase, calls, lastCall>>

\* visitGroup, up to the loop over the steps
VisitGroup ==
    /\ Visiting("Group")
    /\ stack' = <<[op |-> "group", node |-> Top.node, ctx |-> Top.ctx, next |-> 1,
                   inner |-> 0, furthestTime |-> currentTime(TL(World, Top.ctx)),
                   innerTimelines |-> <<>>]>> \o Tail(stack)
    /\ UNCHANGED <<Inputs, transition, Apart, timelines, lookup, ctxs, errors, subInstructions, output,
                   phase, calls, lastCall>>

\* the styles of the inner timelines merged into the current timeline of c
RECURSIVE mergeInnerTimelines(_, _, _)
mergeInnerTimelines(tls, i, innerTimelines) ==
    IF innerTimelines = <<>> THEN tls
    ELSE mergeInnerTimelines(mergeTimelineCollectedStyles(tls, i, Head(innerTimelines)),
                             i, Tail(innerTimelines))

\* visitGroup: the rest of one iteration after the step returned, then the
\* next iteration up to its visit, or the code after the loop
GroupNext ==
    /\ Waiting("group")
    /\ LET c == Top.ctx
           node == Top.node
           furthestTime == IF Top.inner = 0 THEN Top.furthestTime
                           ELSE Max(Top.furthestTime, currentTime(TL(World, Top.inner)))
           innerTimelines == IF Top.inner = 0 THEN Top.innerTimelines
                             ELSE Append(Top.innerTimelines, ctxs[Top.inner].currentTimeline)
       IN IF Top.next <= Len(node.steps)
          THEN LET W1 == createSubContext(World, c, node.locals, <<>>, 0)
                   innerContext == Len(W1.ctxs)
                   hasDelay == node.locals # <<>> /\ "delay" \in DOMAIN node.locals[1]
                   W2 == IF hasDelay
                         THEN ctxDelayNextStep(W1, innerContext,
                                               Locals(W1, innerContext)["delay"])
                         ELSE W1
               IN /\ Apply(W2)
                  /\ stack' = <<Visit(node.steps[Top.next], innerContext),
                                [Top EXCEPT !.next = @ + 1, !.inner = innerContext,
                                            !.furthestTime = furthestTime,
                                            !.innerTimelines = innerTimelines]>>
                              \o Tail(stack)
          ELSE LET W1 == [World EXCEPT !.timelines =
                              mergeInnerTimelines(@, ctxs[c].currentTimeline, innerTimelines)]
                   W2 == transformIntoNewTimeline(W1, c, furthestTime)
               IN /\ Apply(SetPrevious(W2, c, "Group"))
                  /\ stack' = Tail(stack)
    /\ UNCHANGED <<Inputs, transition, Apart, output, phase, calls, lastCall>>

\* visitQuery, up to the loop over the matched elements
VisitQuery ==
    /\ Visiting("Query")
    /\ LET c == Top.ctx
           node == Top.node
           startTime == currentTime(TL(World, c))
           locals == IF node.locals # <<>> THEN node.locals[1] ELSE EmptyMap
           W1 == IF ctxs[c].previousNode = "Style"
                    \/ (startTime = 0 /\ getCurrentStyleProperties(TL(World, c)) # {})
                 THEN SetPrevious(forwardFrameAndSnapshot(World, c), c,
                                  DEFAULT_NOOP_PREVIOUS_NODE)
                 ELSE World
           q == invokeQuery(ctxs[c].element, node.found, node.multi, node.includeSelf,
                            "optional" \in DOMAIN locals /\ locals["optional"])
           W2 == [W1 EXCEPT !.errors = @ \o q.errors,
                            !.ctxs[c].currentQueryTotal = Len(q.results)]
       IN /\ Apply(W2)
          /\ stack' = <<[op |-> "query", node |-> node, ctx |-> c, elms |-> q.results,
                         next |-> 1, inner |-> 0, startTime |-> 0,
                         furthestTime |-> startTime, sameElementTimeline |-> <<>>]>>
                      \o Tail(stack)
    /\ UNCHANGED <<Inputs, transition, Apart, output, phase, calls, lastCall>>

\* visitQuery: the rest of one iteration after the animation returned, then
\* the next iteration up to its visit, or the code after the loop
QueryNext ==
    /\ Waiting("query")
    /\ LET c == Top.ctx
           node == Top.node
           inner == Top.inner
           styleOnly == inner # 0 /\ ctxs[inner].previousNode = "Style"
                        /\ Top.startTime = currentTime(TL(World, inner))
           W0 == IF styleOnly
                 THEN SetPrevious(forwardFrameAndSnapshot(World, inner), inner,
                                  DEFAULT_NOOP_PREVIOUS_NODE)
                 ELSE World
           furthestTime == IF inner = 0 THEN Top.furthestTime
                           ELSE Max(Top.furthestTime, currentTime(TL(W0, inner)))
       IN IF Top.next <= Len(Top.elms)
          THEN LET element == Top.elms[Top.next]
                   W1 == createSubContext(
                             [W0 EXCEPT !.ctxs[c].currentQueryIndex = Top.next - 1],
                             c, node.locals, <<element>>, 0)
                   innerContext == Len(W1.ctxs)
                   hasDelay == node.locals # <<>> /\ "delay" \in DOMAIN node.locals[1]
                   W2 == IF hasDelay
                         THEN ctxDelayNextStep(W1, innerContext,
                                               Locals(W1, innerContext)["delay"])
                         ELSE W1
               IN /\ Apply(W2)
                  /\ stack' = <<Visit(node.animation, innerContext),
                                [Top EXCEPT !.next = @ + 1, !.inner = innerContext,
                                    !.startTime = currentTime(TL(W2, innerContext)),
                                    !.furthestTime = furthestTime,
                                    !.sameElementTimeline =
                                        IF element = ctxs[c].element
                                        THEN <<W2.ctxs[innerContext].currentTimeline>>
                                        ELSE @]>>
                              \o Tail(stack)
          ELSE LET W1 == [W0 EXCEPT !.ctxs[c].currentQueryIndex = 0,
                                    !.ctxs[c].currentQueryTotal = 0]
                   W2 == transformIntoNewTimeline(W1, c, furthestTime)
                   W3 == IF Top.sameElementTimeline # <<>>
                         THEN LET Wm == [W2 EXCEPT !.timelines =
                                            mergeTimelineCollectedStyles(@,
                                                W2.ctxs[c].currentTimeline,
                                                Top.sameElementTimeline[1])]
                              IN OnTimeline(Wm, c, snapshotCurrentStyles(TL(Wm, c)))
                         ELSE W2
               IN /\ Apply(SetPrevious(W3, c, "Query"))
                  /\ stack' = Tail(stack)
    /\ UNCHANGED <<Inputs, transition, Apart, output, phase, calls, lastCall>>

\* the delay visitStagger gives the timeline of the current match
staggerDelayMutant(timings, index, total, parentStaggerTime) ==
    LET duration == IF timings.duration < 0 THEN 0 - timings.duration ELSE timings.duration
    IN IF timings.easing = "full" THEN parentStaggerTime ELSE duration * index

staggerDelay(timings, index, total, parentStaggerTime) ==
    LET duration == IF timings.duration < 0 THEN 0 - timings.duration ELSE timings.duration
        maxTime == duration * (total - 1)
        delay == duration * index
        staggerTransformer == IF timings.duration < 0 THEN "reverse" ELSE timings.easing
    IN CASE staggerTransformer = "reverse" -> maxTime - delay
         [] staggerTransformer = "full" -> parentStaggerTime
         [] OTHER -> delay

\* visitStagger, up to the visit of the animation
VisitStagger ==
    /\ Visiting("Stagger")
    /\ ctxs[Top.ctx].parentContext # 0
    /\ LET c == Top.ctx
           parentContext == ctxs[c].parentContext
           delay == staggerDelay(Top.node.timings, ctxs[c].currentQueryIndex,
                                 ctxs[c].currentQueryTotal,
                                 ctxs[parentContext].currentStaggerTime)
           W1 == IF delay # 0 THEN OnTimeline(World, c, delayNextStep(TL(World, c), delay))
                 ELSE World
       IN /\ Apply(W1)
          /\ stack' = <<Visit(Top.node.animation, c),
                        [op |-> "staggerEnd", ctx |-> c, tl |-> ctxs[c].currentTimeline,
                         startingTime |-> currentTime(TL(W1, c))]>>
                      \o Tail(stack)
    /\ UNCHANGED <<Inputs, transition, Apart, output, phase, calls, lastCall>>

\* visitStagger, after the animation
StaggerEnd ==
    /\ Waiting("staggerEnd")
    /\ LET c == Top.ctx
           parentContext == ctxs[c].parentContext
           tl == timelines[Top.tl]
           W1 == SetPrevious(World, c, "Stagger")
       IN Apply([W1 EXCEPT !.ctxs[parentContext].currentStaggerTime =
                     (currentTime(tl) - Top.startingTime)
                     + (tl.startTime - TL(World, parentContext).startTime)])
    /\ stack' = Tail(stack)
    /\ UNCHANGED <<Inputs, transition, Apart, output, phase, calls, lastCall>>

\* the timelines that pass the filter of buildKeyframes, in creation order
AnimatedTimelines(tls) == SelectSeq([k \in 1..Len(tls) |-> k], LAMBDA k : containsAnimation(tls[k]))

\* whether buildKeyframes writes the final styles into timeline tl
appliesFinalStylesMutant(tl, final) == FALSE

appliesFinalStyles(tl, final) == DOMAIN final # {} /\ ~allowOnlyTimelineStyles(tl)

\* the instructions returned for the heap tls
instructionsMutant(rootElement, tls) == [k \in 1..Len(tls) |-> buildKeyframes(tls[k])]

instructions(rootElement, tls) ==
    LET kept == AnimatedTimelines(tls) IN
    IF kept # <<>>
    THEN [k \in 1..Len(kept) |-> buildKeyframes(tls[kept[k]])]
    ELSE <<createTimelineInstruction(rootElement, <<>>, {}, {}, 0, 0, NoEasing, FALSE)>>

\* buildKeyframes, after ast.visit(this, context)
BuildKeyframesEnd ==
    /\ phase = "visit"
    /\ stack = <<>>
    /\ LET kept == AnimatedTimelines(timelines)
           tl == kept[Len(kept)]
           r == IF kept # <<>> /\ appliesFinalStyles(timelines[tl], finalStyles)
                THEN setStyles(timelines, tl, <<Token(finalStyles)>>, NoEasing, FALSE,
                               LocalsIn(ctxs, 1))
                ELSE [tls |-> timelines, errors |-> <<>>]
       IN /\ timelines' = r.tls
          /\ errors' = errors \o r.errors
          /\ output' = instructions(ctxs[1].element, r.tls)
    /\ phase' = "done"
    /\ UNCHANGED <<Inputs, transition, Apart, lookup, ctxs, stack, subInstructions, calls, lastCall>>

---------------------------------------------------------------------------
(* AnimationTransitionFactory.build, after buildAnimationTimelines returned *)
(* (animation_transition_factory.ts)                                       *)

NoTransition == [built |-> FALSE]

\* `animation building failed:\n${errors.join("\n")}`: the message as its
\* list of lines (no collected message holds a line break)
errorMessageMutant(errs) == <<Message("animation building failed:", <<>>), errs[1]>>

errorMessage(errs) == <<Message("animation building failed:", <<>>)>> \o errs

\* preStyleMap / postStyleMap: element -> the properties listed by its timelines
stylePropsMap(tls, field) ==
    [elm \in {tls[k].element : k \in 1..Len(tls)} |->
        UNION {tls[k][field] : k \in {j \in 1..Len(tls) : tls[j].element = elm}}]

\* the queried elements, in the order their first timeline appears
queriedElements(tls, element) ==
    LET firsts == SelectSeq([k \in 1..Len(tls) |-> k],
                    LAMBDA k : /\ tls[k].element # element
                               /\ \A j \in 1..(k - 1) : tls[j].element # tls[k].element)
    IN [k \in 1..Len(firsts) |-> tls[firsts[k]].element]

\* the locals build() hands to buildAnimationTimelines: transitionLocals is
\* this.ast.locals and locals the argument of build; <<>> is null / undefined
animationLocals(transitionLocals, locals) ==
    IF transitionLocals # <<>>
    THEN (IF locals # <<>> THEN locals[1] ELSE EmptyMap) @@ transitionLocals[1]
    ELSE EmptyMap

BuildReturn ==
    /\ phase = "done"
    /\ transition' =
         IF Len(errors) # 0
         THEN [built |-> TRUE, thrown |-> TRUE, message |-> errorMessage(errors)]
         ELSE [built |-> TRUE, thrown |-> FALSE,
               instruction |-> [element |-> ctxs[1].element,
                                fromStyles |-> startingStyles,
                                toStyles |-> finalStyles,
                                timelines |-> output,
                                queriedElements |-> queriedElements(output, ctxs[1].element),
                                preStyleProps |-> stylePropsMap(output, "preStyleProps"),
                                postStyleProps |-> stylePropsMap(output, "postStyleProps")]]
    /\ phase' = "built"
    /\ UNCHANGED <<Inputs, Apart, subInstructions, timelines, lookup, ctxs, stack, errors,
                   output, calls, lastCall>>

---------------------------------------------------------------------------
(* The inputs the compiler is run on                                       *)

MaxSteps == 2      \* longest sequence of leaf steps
MaxMatches == 2    \* most elements a query of the general family matches

Root == 0          \* the root element; the elements a query finds are 1, 2, ...
Found(n) == [k \in 1..n |-> k]

O0 == ("opacity" :> "0")
O1 == ("opacity" :> "1")
W1 == ("width" :> "1")

S(m) == StyleAst(<<Token(m)>>, NoEasing, FALSE)
\* animate(timings) without styles carries a style node marked as empty step
EmptyStep == StyleAst(<<>>, NoEasing, TRUE)
A(duration, delay, m) == AnimateAst(TimingAst(duration, delay, NoEasing), S(m))
K(duration) ==
    AnimateAst(TimingAst(duration, 0, NoEasing),
               KeyframesAst(<<KeyframeStep(Offset(0, 1), <<Token(O0)>>, NoEasing),
                              KeyframeStep(Offset(1, 2), <<Token(W1)>>, NoEasing),
                              KeyframeStep(Offset(1, 1), <<Token(O1)>>, NoEasing)>>))

StyleLeaves == {S(O0), S(W1)}
AnimateLeaves == {A(1000, 0, O1), A(5, 0, O0), A(10, 0, O1), A(5, 3, W1),
                  AnimateAst(TimingAst(10, 0, NoEasing), EmptyStep), K(10)}
Leaves == StyleLeaves \cup AnimateLeaves \cup {AnimateChildAst(<<>>)}
FewLeaves == {S(O0), A(5, 0, O0), A(10, 0, O1)}

SeqsUpTo(X, n) == UNION {[1..k -> X] : k \in 0..n}

LeafSequences == {SequenceAst(steps, <<>>) : steps \in SeqsUpTo(Leaves, MaxSteps)}
Groups == {GroupAst(<<a, b>>, <<>>) : a \in Leaves, b \in FewLeaves}
GroupsInSequence ==
    {SequenceAst(<<x, GroupAst(<<a, b>>, <<>>), y>>, <<>>) :
        x \in FewLeaves, a \in FewLeaves, b \in FewLeaves, y \in FewLeaves}
Staggers == {StaggerAst(TimingAst(d, 0, e), A(200, 0, O1)) :
                d \in {100, -100}, e \in {NoEasing, "full"}}
Optional == <<("optional" :> TRUE)>>
Queries ==
    {QueryAst(Found(n), TRUE, self, locals, animation) :
        n \in 0..MaxMatches, self \in BOOLEAN, locals \in {<<>>, Optional},
        animation \in FewLeaves \cup Staggers
                      \cup {SequenceAst(<<S(O0), S(W1)>>, <<>>)}}
StaggerFanOut == {QueryAst(Found(4), TRUE, FALSE, <<>>, st) : st \in Staggers}
\* a query that finds nothing, followed by another step
QueryThenStep ==
    {SequenceAst(<<QueryAst(Found(0), multi, FALSE, locals, S(O0)), a>>, <<>>) :
        multi \in BOOLEAN, locals \in {<<>>, Optional},
        a \in FewLeaves \cup {QueryAst(Found(0), TRUE, FALSE, <<>>, S(O0))}}
QueriesInQuery ==
    {QueryAst(Found(1), TRUE, FALSE, <<>>,
        SequenceAst(<<QueryAst(Found(n), TRUE, FALSE, Optional, S(O0)), a, st>>, <<>>)) :
        n \in 0..1, a \in FewLeaves, st \in Staggers}

\* animateChild() with a duration of its own, around other steps
ChildLocals == {<<>>} \cup {<<("duration" :> d)>> : d \in {Num(0), Num(7), Str(<<"0", "s">>)}}
                     \cup {<<("duration" :> Num(0)) @@ ("delay" :> Num(4))>>}
ChildSteps ==
    {SequenceAst(<<a, AnimateChildAst(l), b>>, <<>>) : a \in FewLeaves, l \in ChildLocals,
                                                      b \in {S(O0), A(5, 0, O0)}}
    \cup {GroupAst(<<AnimateChildAst(l), a>>, <<>>) : l \in ChildLocals, a \in FewLeaves}

\* a group, with or without a delay of its own, entered after time has passed
GroupDelay == <<("delay" :> Num(3))>>
GroupsAfterStep ==
    {SequenceAst(<<A(5, 0, O0), GroupAst(<<a, b>>, l), S(W1)>>, <<>>) :
        a \in {K(10), A(10, 0, O1)}, b \in {S(O0), A(5, 0, O0)}, l \in {<<>>, GroupDelay}}

\* a query of three matches staggered in 'full' mode, first or after a step
FullStagger(animation) == StaggerAst(TimingAst(100, 0, "full"), animation)
StaggerChainQueries ==
    {QueryAst(Found(3), TRUE, FALSE, <<>>, FullStagger(animation)) :
        animation \in {A(200, 0, O1), SequenceAst(<<S(O0), A(200, 0, O1)>>, <<>>)}}
StaggerChains ==
    StaggerChainQueries \cup {SequenceAst(<<A(5, 0, O0), q>>, <<>>) : q \in StaggerChainQueries}

\* a reference with locals of its own, compiled under bindings of the caller
Wx == ("width" :> "$x")
ReferenceLocals == {<<>>, <<("$w" :> "9")>>, <<("$x" :> "9") @@ ("delay" :> Num(3))>>}
References == {ReferenceAst(l, a) : l \in ReferenceLocals, a \in {S(Wx), A(5, 0, O0)}}
RootBindings ==
    {EmptyMap, ("$w" :> "1"), ("$x" :> "1") @@ ("delay" :> Offset(5, 1))}
\* a sequence that declares the variable its steps use
SequencesWithLocals ==
    {SequenceAst(<<a>>, <<("$x" :> "9")>>) : a \in {S(Wx), A(5, 0, Wx)}}
WithBindings == References \cup SequencesWithLocals

Asts == LeafSequences \cup Groups \cup GroupsInSequence \cup Queries \cup StaggerFanOut
        \cup QueriesInQuery \cup QueryThenStep \cup ChildSteps \cup GroupsAfterStep
        \cup StaggerChains \cup WithBindings

\* a pre-compiled instruction of the root element, as an earlier run of the
\* compiler returned it
ChildInstruction(stretch) ==
    createTimelineInstruction(Root,
        <<Keyframe(O0, Offset(0, 1)), Keyframe(O1, Offset(1, 1))>>,
        {}, {}, 1000, 1000, NoEasing, stretch)

Init ==
    /\ ast \in Asts
    /\ startingStyles \in {EmptyMap, O1}
    /\ finalStyles \in {EmptyMap, ("opacity" :> "0") @@ ("height" :> "9")}
    /\ rootLocals \in (IF ast \in WithBindings THEN RootBindings ELSE {EmptyMap})
    /\ subInstructions \in {(Root :> <<ChildInstruction(st)>>) : st \in BOOLEAN}
                            \cup {(Root :> <<ChildInstruction(TRUE), ChildInstruction(FALSE)>>)}
    /\ timelines = <<NewTimeline(Root, 0, 1)>>
    /\ lookup = (Root :> 1)
    /\ ctxs = <<[NewContext(Root, 1, 1) EXCEPT !.localsObject = rootLocals]>>
    /\ stack = <<>>
    /\ errors = <<>>
    /\ output = <<>>
    /\ phase = "start"
    /\ calls = 0
    /\ lastCall = NoCall
    /\ transition = NoTransition
    /\ Idle

Next ==
    \/ BuildKeyframesStart
    \/ VisitStyle
    \/ VisitAnimate
    \/ VisitAnimateChild
    \/ VisitReference
    \/ ReferenceEnd
    \/ VisitSequence
    \/ SequenceEnd
    \/ VisitGroup
    \/ GroupNext
    \/ VisitQuery
    \/ QueryNext
    \/ VisitStagger
    \/ StaggerEnd
    \/ BuildKeyframesEnd
    \/ BuildReturn

Spec == Init /\ [][Next]_vars

---------------------------------------------------------------------------
(* The TimelineBuilder driven directly: two builders of the root element,  *)
(* the second forked from the first, and any sequence of calls on them     *)

MaxCalls == 3      \* number of calls made on the builders
MaxBuilders == 3   \* number of builders there can be

ApiTimes == {0, 5}
ApiStyles == {O0, O1, W1}

Call(method, i, arg) == [method |-> method, tl |-> i, arg |-> arg]

Api(method, i, arg, tls) ==
    /\ timelines' = tls
    /\ calls' = calls + 1
    /\ lastCall' = Call(method, i, arg)
    /\ UNCHANGED <<Inputs, transition, Apart, subInstructions, lookup, ctxs, stack, errors, output, phase>>

ApiReady == phase = "api" /\ calls < MaxCalls

ApiForwardTime ==
    /\ ApiReady
    /\ \E i \in 1..Len(timelines), time \in ApiTimes :
        Api("forwardTime", i, time, [timelines EXCEPT ![i] = forwardTime(@, time)])

ApiForwardFrame ==
    /\ ApiReady
    /\ \E i \in 1..Len(timelines) :
        Api("forwardFrame", i, 0, [timelines EXCEPT ![i] = forwardFrame(@)])

ApiSetStyles ==
    /\ ApiReady
    /\ \E i \in 1..Len(timelines), m \in ApiStyles :
        Api("setStyles", i, m,
            setStyles(timelines, i, <<Token(m)>>, NoEasing, FALSE, EmptyMap).tls)

ApiSetEmptyStep ==
    /\ ApiReady
    /\ \E i \in 1..Len(timelines) :
        Api("setEmptyStep", i, 0, setStyles(timelines, i, <<>>, NoEasing, TRUE, EmptyMap).tls)

ApiSnapshotCurrentStyles ==
    /\ ApiReady
    /\ \E i \in 1..Len(timelines) :
        Api("snapshotCurrentStyles", i, 0,
            [timelines EXCEPT ![i] = snapshotCurrentStyles(@)])

ApiMergeTimelineCollectedStyles ==
    /\ ApiReady
    /\ \E i \in 1..Len(timelines), j \in 1..Len(timelines) :
        /\ i # j
        /\ Api("mergeTimelineCollectedStyles", i, j,
               mergeTimelineCollectedStyles(timelines, i, j))

\* fork(element, atTime) or fork(element) on builder i: the new builder is
\* the last of timelines.  A sub-timeline builder, whose lookup is a map of
\* its own, is not forked.
ApiFork ==
    /\ ApiReady
    /\ Len(timelines) < MaxBuilders
    /\ \E i \in 1..Len(timelines), element \in {Root, 1}, atTime \in {<<>>, <<0>>, <<5>>} :
        /\ ~timelines[i].sub
        /\ LET f == fork(timelines[i], lookup, element, forkDefault(atTime), Len(timelines) + 1)
           IN /\ timelines' = Append(timelines, f.tl)
              /\ lookup' = f.lookup
              /\ calls' = calls + 1
              /\ lastCall' = Call("fork", i, [element |-> element, atTime |-> atTime])
              /\ UNCHANGED <<Inputs, transition, Apart, subInstructions, ctxs, stack, errors,
                             output, phase>>

\* the keyframes and timings given to the constructor of a sub-timeline builder
SubKeyframes ==
    {<<Keyframe(O0, Offset(0, 1)), Keyframe(O1, Offset(1, 1))>>,
     <<Keyframe(O0, Offset(0, 1)), Keyframe(W1, Offset(1, 2)), Keyframe(O1, Offset(1, 1))>>,
     <<Keyframe(O0, Offset(0, 1)), Keyframe(W1, Offset(1, 4)), Keyframe(O1, Offset(1, 1))>>}
SubTimings == {Timings(duration, delay, NoEasing) : duration \in {1000, 2000}, delay \in {0, 1000}}

\* new SubTimelineBuilder(element, keyframes, [], [], timings, stretch), once
ApiNewSubTimelineBuilder ==
    /\ ApiReady
    /\ Len(timelines) < MaxBuilders
    /\ \A i \in 1..Len(timelines) : ~timelines[i].sub
    /\ \E keyframes \in SubKeyframes, timings \in SubTimings, stretch \in BOOLEAN :
        /\ timelines' = Append(timelines,
               NewSubTimeline(createTimelineInstruction(Root, keyframes, {}, {}, 0, 0,
                                                        NoEasing, stretch),
                              timings, Len(timelines) + 1))
        /\ calls' = calls + 1
        /\ lastCall' = Call("new SubTimelineBuilder", Len(timelines) + 1, timings)
        /\ UNCHANGED <<Inputs, transition, Apart, subInstructions, lookup, ctxs, stack, errors,
                       output, phase>>

\* buildKeyframes() on builder i: the instruction returned is the output
ApiBuildKeyframes ==
    /\ ApiReady
    /\ \E i \in 1..Len(timelines) :
        /\ output' = <<buildKeyframes(timelines[i])>>
        /\ calls' = calls + 1
        /\ lastCall' = Call("buildKeyframes", i, 0)
        /\ UNCHANGED <<Inputs, transition, Apart, subInstructions, timelines, lookup, ctxs,
                       stack, errors, phase>>

InitApi ==
    /\ ast = S(O0)
    /\ startingStyles = EmptyMap
    /\ finalStyles = EmptyMap
    /\ rootLocals = EmptyMap
    /\ subInstructions = EmptyMap
    /\ timelines = <<NewTimeline(Root, 0, 1), fork(NewTimeline(Root, 0, 1), (Root :> 1), Root, 0, 2).tl>>
    /\ lookup = (Root :> 1)
    /\ ctxs = <<>>
    /\ stack = <<>>
    /\ errors = <<>>
    /\ output = <<>>
    /\ phase = "api"
    /\ calls = 0
    /\ lastCall = NoCall
    /\ transition = NoTransition
    /\ Idle

NextApi ==
    \/ ApiForwardTime
    \/ ApiForwardFrame
    \/ ApiSetStyles
    \/ ApiSetEmptyStep
    \/ ApiSnapshotCurrentStyles
    \/ ApiMergeTimelineCollectedStyles
    \/ ApiFork
    \/ ApiBuildKeyframes
    \/ ApiNewSubTimelineBuilder

SpecTimeline == InitApi /\ [][NextApi]_vars

---------------------------------------------------------------------------
(* The AnimationTimelineContext driven directly: a root context with       *)
(* bindings of its own and any sequence of calls on it and on the contexts *)
(* made from it                                                            *)

CtxDelays == {-3, 0, 3}

\* the locals objects handed to createSubContext and updateLocals; <<>> is null
GivenLocals ==
    << <<>>,
       <<("$w" :> "9")>>,
       <<("$x" :> "9") @@ ("delay" :> Num(3))>>,
       <<("duration" :> Str(<<"1", "s">>)) @@ ("optional" :> TRUE)>>,
       <<("$w" :> "0") @@ ("$x" :> "0")>> >>

\* the bindings the root context starts with
RootLocals ==
    << EmptyMap,
       ("$w" :> "1"),
       ("$w" :> "1") @@ ("$x" :> "1") @@ ("delay" :> Offset(5, 1)) @@ ("easing" :> "full") >>

InitContext ==
    /\ ast = S(O0)
    /\ startingStyles = EmptyMap
    /\ finalStyles = EmptyMap
    /\ \E k \in 1..Len(RootLocals) : rootLocals = RootLocals[k]
    /\ subInstructions = EmptyMap
    /\ timelines = <<NewTimeline(Root, 0, 1)>>
    /\ lookup = (Root :> 1)
    /\ ctxs = <<[NewContext(Root, 1, 1) EXCEPT !.localsObject = rootLocals]>>
    /\ stack = <<>>
    /\ errors = <<>>
    /\ output = <<>>
    /\ phase = "context"
    /\ calls = 0
    /\ lastCall = NoCall
    /\ transition = NoTransition
    /\ Idle

Ctx(method, c, arg, W) ==
    /\ Apply(W)
    /\ calls' = calls + 1
    /\ lastCall' = Call(method, c, arg)
    /\ UNCHANGED <<Inputs, transition, Apart, stack, output, phase>>

CtxReady == phase = "context" /\ calls < MaxCalls

CtxCreateSubContext ==
    /\ CtxReady
    /\ \E c \in 1..Len(ctxs), k \in 1..Len(GivenLocals) :
        Ctx("createSubContext", c, k, createSubContext(World, c, GivenLocals[k], <<>>, 0))

CtxUpdateLocals ==
    /\ CtxReady
    /\ \E c \in 1..Len(ctxs), k \in 1..Len(GivenLocals), skipIfExists \in BOOLEAN :
        Ctx("updateLocals", c, k, ctxUpdateLocals(World, c, GivenLocals[k], skipIfExists))

CtxDelayNextStep ==
    /\ CtxReady
    /\ \E c \in 1..Len(ctxs), delay \in CtxDelays :
        Ctx("delayNextStep", c, delay, ctxDelayNextStep(World, c, Offset(delay, 1)))

CtxIncrementTime ==
    /\ CtxReady
    /\ \E c \in 1..Len(ctxs) :
        Ctx("incrementTime", c, 5, incrementTime(World, c, 5))

CtxSetStyles ==
    /\ CtxReady
    /\ \E c \in 1..Len(ctxs) :
        Ctx("setStyles", c, 0,
            ctxSetStyles(World, c, <<Token(O0)>>, NoEasing, FALSE, Locals(World, c)))

\* the timings a caller of appendInstructionToTimeline asks for
RequestedTimings ==
    {Timings(<<>>, <<>>, <<>>), Timings(<<7>>, <<4>>, <<"ease-in">>),
     Timings(<<>>, <<4>>, <<>>), Timings(<<7>>, <<>>, <<"ease-in">>)}

\* a pre-compiled instruction with an easing of its own
EasedInstruction == [ChildInstruction(FALSE) EXCEPT !.easing = "ease-out"]

CtxAppendInstructionToTimeline ==
    /\ CtxReady
    /\ \E c \in 1..Len(ctxs), timings \in RequestedTimings :
        Ctx("appendInstructionToTimeline", c, timings,
            appendInstructionToTimeline(World, c, EasedInstruction, timings))

NextContext ==
    \/ CtxAppendInstructionToTimeline
    \/ CtxCreateSubContext
    \/ CtxUpdateLocals
    \/ CtxDelayNextStep
    \/ CtxIncrementTime
    \/ CtxSetStyles

SpecContext == InitContext /\ [][NextContext]_vars

---------------------------------------------------------------------------
(* Functions applied to arguments of their own: one call of resolveTiming  *)
(* or of interpolateLocals (util.ts) on an error list that may hold an     *)
(* earlier message, or the merge of locals AnimationTransitionFactory      *)
(* .build makes before it calls the compiler.                              *)

MaxText == 4       \* longest text made of the characters of Alphabet

Alphabet == {"0", "1", "-", ".", "m", "s", " ", "e"}
Texts == UNION {[1..k -> Alphabet] : k \in 0..MaxText}
T(a, b, c, d, e, f, g) == <<a, b, c, d, e, f, g>>
LongTexts == {T("1", "s", " ", "-", "1", "s", " ") \o <<"e">>,
              T("-", "1", "s", " ", "1", "s", " ") \o <<"e">>,
              T("1", "s", " ", "-", ".", "1", "s"),
              T("1", "s", " ", "1", ".", "1", "s"),
              T("1", "s", " ", "e", "(", "1", ")"),
              T("1", "s", " ", "e", "(", ")", " "),
              T("1", "S", " ", "1", "M", "S", " ") \o <<"E">>,
              T("1", "m", "s", " ", " ", "1", "s"),
              T(" ", "1", "s", " ", "1", "s", " "),
              T("1", "s", " ", "1", "s", " ", " ")}
TimingValues ==
    {Str(t) : t \in Texts \cup LongTexts}
    \cup {Num(n) : n \in {-5, 0, 5}}
    \cup {[Num(0) EXCEPT !.number = x] : x \in {NaN, Offset(-1, 2), Offset(1, 2)}}
    \cup {Obj(AnimateTimings(Offset(d, 1), Offset(l, 1), <<>>)) : d \in {-5, 5}, l \in {-5, 0}}
EarlierErrors == {<<>>, <<<<"earlier">>>>}

StyleAlphabet == {"$", "{", "}", "w", "x", " ", "1"}
StyleTexts == UNION {[1..k -> StyleAlphabet] : k \in 0..MaxText}
LongStyleTexts == {T("$", "{", "w", "}", " ", "$", "x"),
                   T("$", "w", "$", "{", "x", "}", "1"),
                   T("$", "{", " ", "w", "}", "$", "w"),
                   T("1", "$", "{", "w", "-", "x", "}"),
                   T("$", "x", "{", "w", "}", "$", " "),
                   T("$", "{", "w", "$", "x", "}", "1")}
StyleValues == {Str(t) : t \in StyleTexts \cup LongStyleTexts}
               \cup {Num(n) : n \in {-5, 0, 5, 10}}
               \cup {[Num(0) EXCEPT !.number = NaN]}
NoLocals == [n \in {} |-> Num(0)]
LocalsValues ==
    {NoLocals,
     (<<"$", "w">> :> Str(<<"1">>)),
     (<<"$", "w">> :> Num(0)),
     (<<"$", "w">> :> Str(<<"$", "w">>)),
     (<<"$", "x">> :> Str(<<"$">>)),
     (<<"$", "w">> :> Str(<<"$", "x">>)) @@ (<<"$", "x">> :> Num(5))}

InitUtil ==
    /\ ast = S(O0)
    /\ startingStyles = EmptyMap
    /\ finalStyles = EmptyMap
    /\ rootLocals = EmptyMap
    /\ subInstructions = EmptyMap
    /\ timelines = <<>>
    /\ lookup = EmptyMap
    /\ ctxs = <<>>
    /\ stack = <<>>
    /\ errors \in EarlierErrors
    /\ output = <<>>
    /\ phase = "util"
    /\ calls = 0
    /\ lastCall = NoCall
    /\ transition = NoTransition
    /\ Idle

Applying == phase = "util" /\ applied = NoApplication

ApplyResolveTiming ==
    /\ Applying
    /\ \E timings \in TimingValues, allowNegativeValues \in BOOLEAN :
          LET r == resolveTiming(timings, errors, allowNegativeValues)
          IN /\ errors' = r.errors
             /\ applied' = [fn |-> "resolveTiming", timings |-> timings,
                            allowNegativeValues |-> allowNegativeValues,
                            errors |-> errors, result |-> r.timings]
    /\ UNCHANGED <<Inputs, subInstructions, timelines, lookup, ctxs, stack, output, phase,
                   calls, lastCall, transition, flushPending, flushCount, invocations,
                   flushes, queued>>

ApplyInterpolateLocals ==
    /\ Applying
    /\ \E value \in StyleValues, locals \in LocalsValues :
          LET r == interpolateLocals(value, locals, errors)
          IN /\ errors' = r.errors
             /\ applied' = [fn |-> "interpolateLocals", value |-> value, locals |-> locals,
                            errors |-> errors, result |-> r.value]
    /\ UNCHANGED <<Inputs, subInstructions, timelines, lookup, ctxs, stack, output, phase,
                   calls, lastCall, transition, flushPending, flushCount, invocations,
                   flushes, queued>>

\* the locals a transition declares and the locals the caller of build gives
TransitionLocals ==
    {<<>>, <<EmptyMap>>, <<("$w" :> "1")>>, <<("$x" :> "1") @@ ("delay" :> "3")>>}
CallerLocals ==
    {<<>>, <<EmptyMap>>, <<("$w" :> "9")>>, <<("$w" :> "9") @@ ("$x" :> "7")>>}

\* AnimationTransitionFactory.build, up to the call of buildAnimationTimelines
ApplyBuild ==
    /\ Applying
    /\ \E transitionLocals \in TransitionLocals, locals \in CallerLocals :
          applied' = [fn |-> "build", transitionLocals |-> transitionLocals,
                      locals |-> locals,
                      result |-> animationLocals(transitionLocals, locals)]
    /\ UNCHANGED <<Inputs, subInstructions, timelines, lookup, ctxs, stack, output, phase,
                   calls, lastCall, transition, errors, flushPending, flushCount,
                   invocations, flushes, queued>>

NextUtil ==
    \/ ApplyResolveTiming
    \/ ApplyInterpolateLocals
    \/ ApplyBuild

SpecUtil == InitUtil /\ [][NextUtil]_vars

---------------------------------------------------------------------------
(* The AnimationRenderers of one engine and one zone, and the function     *)
(* provided for FLUSH_ANIMATIONS_FN.  flushPending[r] is _flushPending of  *)
(* the r-th renderer made, flushCount counts the calls of engine.flush().  *)

MaxRenderers == 2   \* renderers made by the factory
MaxEvents == 5      \* calls and events of one behaviour

\* AnimationEngine.flush() of the engine whose flushes are counted
flush(count) == count + 1

linkAnimationFlushFnMutant(count) == count

\* the function linkAnimationFlushFn(engine) returns, called once
linkAnimationFlushFn(count) == flush(count)

\* _queueFlush()
_queueFlushMutant(pending) == ~pending

_queueFlush(pending) == IF ~pending THEN TRUE ELSE pending

\* _flush(): the flag afterwards and the number of flushes of the engine
_flushMutant(pending, count) ==
    IF pending THEN [pending |-> pending, count |-> flush(count)]
    ELSE [pending |-> pending, count |-> count]

_flush(pending, count) ==
    IF pending THEN [pending |-> FALSE, count |-> flush(count)]
    ELSE [pending |-> pending, count |-> count]

\* the subscribers of onMicrotaskEmpty run one after the other
RECURSIVE emitMicrotaskEmpty(_, _, _)
emitMicrotaskEmpty(pendings, r, count) ==
    IF r > Len(pendings) THEN [pendings |-> pendings, count |-> count]
    ELSE LET f == _flush(pendings[r], count)
         IN emitMicrotaskEmpty([pendings EXCEPT ![r] = f.pending], r + 1, f.count)

\* what a renderer has been asked since it last flushed: child is set by
\* appendChild, insertBefore and removeChild, property by a setProperty of
\* an '@' name for which the engine returned a truthy value
NothingQueued == [child |-> FALSE, property |-> FALSE]

\* the calls of engine.flush() the subscriber of renderer r makes when the
\* zone emits, the flags being pendings
flushesMade(pendings, r) == _flush(pendings[r], 0).count

InitRenderer ==
    /\ ast = S(O0)
    /\ startingStyles = EmptyMap
    /\ finalStyles = EmptyMap
    /\ rootLocals = EmptyMap
    /\ subInstructions = EmptyMap
    /\ timelines = <<>>
    /\ lookup = EmptyMap
    /\ ctxs = <<>>
    /\ stack = <<>>
    /\ errors = <<>>
    /\ output = <<>>
    /\ phase = "renderer"
    /\ calls = 0
    /\ lastCall = NoCall
    /\ transition = NoTransition
    /\ Idle

Rendering == phase = "renderer" /\ calls < MaxEvents

Event(method, r, arg, pendings, count) ==
    /\ flushPending' = pendings
    /\ flushCount' = count
    /\ calls' = calls + 1
    /\ lastCall' = Call(method, r, arg)
    /\ UNCHANGED <<Inputs, subInstructions, timelines, lookup, ctxs, stack, errors, output,
                   phase, transition, applied>>

\* AnimationRendererFactory.createRenderer for a type with animations
CreateRenderer ==
    /\ Rendering
    /\ Len(flushPending) < MaxRenderers
    /\ Event("createRenderer", Len(flushPending) + 1, "", Append(flushPending, FALSE), flushCount)
    /\ flushes' = Append(flushes, 0)
    /\ queued' = Append(queued, NothingQueued)
    /\ UNCHANGED invocations

AppendChild ==
    /\ Rendering
    /\ \E r \in 1..Len(flushPending) :
        /\ Event("appendChild", r, "", [flushPending EXCEPT ![r] = _queueFlush(@)], flushCount)
        /\ queued' = [queued EXCEPT ![r].child = TRUE]
    /\ UNCHANGED <<invocations, flushes>>

InsertBefore ==
    /\ Rendering
    /\ \E r \in 1..Len(flushPending) :
        /\ Event("insertBefore", r, "", [flushPending EXCEPT ![r] = _queueFlush(@)], flushCount)
        /\ queued' = [queued EXCEPT ![r].child = TRUE]
    /\ UNCHANGED <<invocations, flushes>>

RemoveChild ==
    /\ Rendering
    /\ \E r \in 1..Len(flushPending) :
        /\ Event("removeChild", r, "", [flushPending EXCEPT ![r] = _queueFlush(@)], flushCount)
        /\ queued' = [queued EXCEPT ![r].child = TRUE]
    /\ UNCHANGED <<invocations, flushes>>

\* setProperty(el, name, value); doFlush is what engine.setProperty returns
SetProperty ==
    /\ Rendering
    /\ \E r \in 1..Len(flushPending), name \in {"@state", "title"}, doFlush \in BOOLEAN :
        /\ Event("setProperty", r, [name |-> name, doFlush |-> doFlush],
                 IF name = "@state" /\ doFlush
                 THEN [flushPending EXCEPT ![r] = _queueFlush(@)] ELSE flushPending,
                 flushCount)
        /\ queued' = IF name = "@state" /\ doFlush
                     THEN [queued EXCEPT ![r].property = TRUE] ELSE queued
    /\ UNCHANGED <<invocations, flushes>>

\* the zone emits onMicrotaskEmpty
MicrotaskEmpty ==
    /\ Rendering
    /\ LET e == emitMicrotaskEmpty(flushPending, 1, flushCount)
       IN Event("microtaskEmpty", 0, "", e.pendings, e.count)
    /\ flushes' = [r \in 1..Len(flushes) |-> flushes[r] + flushesMade(flushPending, r)]
    /\ queued' = [r \in 1..Len(queued) |->
                     IF flushesMade(flushPending, r) > 0 THEN NothingQueued ELSE queued[r]]
    /\ UNCHANGED invocations

\* the function provided for FLUSH_ANIMATIONS_FN is called
FlushAnimationsFn ==
    /\ Rendering
    /\ Event("FLUSH_ANIMATIONS_FN", 0, "", flushPending, linkAnimationFlushFn(flushCount))
    /\ invocations' = invocations + 1
    /\ UNCHANGED <<flushes, queued>>

NextRenderer ==
    \/ CreateRenderer
    \/ AppendChild
    \/ InsertBefore
    \/ RemoveChild
    \/ SetProperty
    \/ MicrotaskEmpty
    \/ FlushAnimationsFn

SpecRenderer == InitRenderer /\ [][NextRenderer]_vars

---------------------------------------------------------------------------
(* Properties                                                              *)

Done == phase = "done"
Returned == phase = "visit" /\ stack = <<>>     \* ast.visit(this, context) has returned
DefaultInputs ==
    startingStyles = EmptyMap /\ finalStyles = EmptyMap /\ rootLocals = EmptyMap

OffsetZero == Offset(0, 1)
OffsetOne == Offset(1, 1)

\* C1: sequence([style({opacity:0}), animate(1000, style({opacity:1}))]) compiled
\* with empty starting styles, empty final styles and no bindings returns exactly
\* one instruction, with keyframes [{opacity:0, offset:0}, {opacity:1, offset:1}],
\* duration 1000 and delay 0.
C1Ast == SequenceAst(<<S(O0), A(1000, 0, O1)>>, <<>>)

C1_SequenceScenario ==
    (Done /\ ast = C1Ast /\ DefaultInputs) =>
        /\ Len(output) = 1
        /\ output[1].element = Root
        /\ Len(output[1].keyframes) = 2
        /\ output[1].keyframes[1].styles = O0
        /\ OffsetEq(output[1].keyframes[1].offset, OffsetZero)
        /\ output[1].keyframes[2].styles = O1
        /\ OffsetEq(output[1].keyframes[2].offset, OffsetOne)
        /\ output[1].duration = 1000
        /\ output[1].delay = 0

C1_Witness == Done /\ ast = C1Ast /\ DefaultInputs /\ Len(output) = 1

\* C2: after a group whose children write opacity at different times (child A
\* opacity 0 at relative time 5, child B opacity 1 at relative time 10), the style
\* summary of the parent's timeline and the shared style state of the element
\* hold the later value, 1, whichever child is visited first.
C2Asts == {GroupAst(<<A(5, 0, O0), A(10, 0, O1)>>, <<>>),
           GroupAst(<<A(10, 0, O1), A(5, 0, O0)>>, <<>>)}

C2_GroupLatestWriteWins ==
    (Returned /\ ast \in C2Asts) =>
        /\ timelines[1].styleSummary["opacity"].value = "1"
        /\ timelines[lookup[Root]].localTimelineStyles["opacity"] = "1"

\* C3: in every instruction the compiler returns the keyframe offsets are
\* non-decreasing, the first offset is 0 and, when there is more than one
\* keyframe, the last offset is 1.
OffsetsInOrder(kfs) ==
    /\ \A k \in 1..Len(kfs) : ~IsNaN(kfs[k].offset)
    /\ \A k \in 1..(Len(kfs) - 1) : OffsetLeq(kfs[k].offset, kfs[k + 1].offset)
    /\ Len(kfs) >= 1 => OffsetEq(kfs[1].offset, OffsetZero)
    /\ Len(kfs) > 1 => OffsetEq(kfs[Len(kfs)].offset, OffsetOne)

C3_OffsetMonotonicity ==
    Done => \A k \in 1..Len(output) : OffsetsInOrder(output[k].keyframes)

\* C4: after any sequence of forwardTime, forwardFrame, setStyles,
\* snapshotCurrentStyles and mergeTimelineCollectedStyles calls on a timeline,
\* every property that appears in any keyframe buildKeyframes yields for that
\* timeline has a value in every keyframe it yields for that timeline.
KeyframeProps(kfs) == (UNION {DOMAIN kfs[k].styles : k \in 1..Len(kfs)}) \ {"easing"}

BackfillComplete(kfs) ==
    \A k \in 1..Len(kfs) : KeyframeProps(kfs) \subseteq (DOMAIN kfs[k].styles)

C4_BackfillCompleteness ==
    phase = "api" =>
        \A i \in 1..Len(timelines) :
            BackfillComplete(TimelineBuildKeyframes(timelines[i]).keyframes)

\* C6: finalizing a sub-timeline builder that has the stretch flag set, two
\* keyframes (offsets 0 and 1), duration 1000 and delay 1000 yields an
\* instruction with duration 2000 and delay 0 whose keyframes are the first
\* keyframe at offset 0, a copy of the first keyframe at offset 0.5 and the
\* last keyframe at offset 1.
StretchedSubTimeline(tl) ==
    /\ tl.sub
    /\ tl.instruction[1].stretchStartingKeyframe
    /\ Len(tl.instruction[1].keyframes) = 2
    /\ OffsetEq(tl.instruction[1].keyframes[1].offset, OffsetZero)
    /\ OffsetEq(tl.instruction[1].keyframes[2].offset, OffsetOne)
    /\ tl.instruction[1].duration = 1000
    /\ tl.instruction[1].delay = 1000

\* the position in the output of the instruction of timeline k
OutputIndex(k) == Cardinality({j \in 1..k : containsAnimation(timelines[j])})

C6_StretchedSubTimeline ==
    Done =>
        \A k \in 1..Len(timelines) :
            StretchedSubTimeline(timelines[k]) =>
                LET given == timelines[k].instruction[1].keyframes
                    out == output[OutputIndex(k)]
                IN /\ out.element = timelines[k].element
                   /\ out.duration = 2000
                   /\ out.delay = 0
                   /\ Len(out.keyframes) = 3
                   /\ out.keyframes[1].styles = given[1].styles
                   /\ OffsetEq(out.keyframes[1].offset, OffsetZero)
                   /\ out.keyframes[2].styles = given[1].styles
                   /\ OffsetEq(out.keyframes[2].offset, Offset(1, 2))
                   /\ out.keyframes[3].styles = given[2].styles
                   /\ OffsetEq(out.keyframes[3].offset, OffsetOne)

C6_Witness ==
    /\ Done
    /\ \E k \in 1..Len(timelines) :
        /\ StretchedSubTimeline(timelines[k])
        /\ Len(output[OutputIndex(k)].keyframes) = 3

\* C7: for a query that matches four elements and whose animation is a stagger
\* of a 200ms animation, the timeline of the match with index i (0..3) starts
\* 100*i after the query starts when the stagger duration is 100ms and
\* 100*(3-i) after it when the stagger duration is -100ms; the query starts at
\* time 0 when the starting styles are empty, so the delays are 0, 100, 200,
\* 300 and 300, 200, 100, 0.
QueryStart == currentTime(timelines[1])

StaggerScenario ==
    /\ ast \in StaggerFanOut
    /\ ast.animation.timings.duration > 0 => ast.animation.timings.easing = NoEasing

ExpectedStagger(e) ==
    IF ast.animation.timings.duration > 0 THEN 100 * (e - 1) ELSE 100 * (4 - e)

OnEmptyStep(tl) == ~allowOnlyTimelineStyles(tl)

C8_EmptyStepKeyframe ==
    [][\A i \in 1..Len(timelines) :
        LET before == timelines[i]
            after == timelines'[i]
        IN /\ (lastCall'.method = "setEmptyStep" /\ lastCall'.tl = i) => OnEmptyStep(after)
           /\ (OnEmptyStep(before) /\ after.currentKeyframe = before.currentKeyframe) =>
                /\ OnEmptyStep(after)
                /\ (lastCall'.method = "setStyles" /\ lastCall'.tl = i) =>
                       \A p \in DOMAIN lastCall'.arg :
                           /\ p \in DOMAIN after.keyframes[after.currentKeyframe]
                           /\ after.keyframes[after.currentKeyframe][p] = lastCall'.arg[p]
           /\ (OnEmptyStep(before) /\ after.currentKeyframe # before.currentKeyframe) =>
                ~OnEmptyStep(after)]_vars

\* an explicit style was written into a keyframe marked as an empty step, and
\* the cursor has since moved to another keyframe
C8_Witness ==
    /\ phase = "api"
    /\ \E i \in 1..Len(timelines) :
        LET tl == timelines[i] IN
        /\ tl.currentEmptyStepKeyframe # <<>>
        /\ tl.currentEmptyStepKeyframe # <<tl.currentKeyframe>>
        /\ allowOnlyTimelineStyles(tl)
        /\ \E p \in DOMAIN tl.keyframes[tl.currentEmptyStepKeyframe[1]] :
            tl.keyframes[tl.currentEmptyStepKeyframe[1]][p] # AUTO_STYLE

\* C9 (as stated): whenever at least one timeline contains animation and the
\* final style map is non-empty, every property of the final style map appears
\* with its final value in the last keyframe of the last compiled instruction.
LastKeyframe(ins) == ins.keyframes[Len(ins.keyframes)]

HasStyles(styles, m) == \A p \in DOMAIN m : p \in DOMAIN styles /\ styles[p] = m[p]

C9_FinalStylesAlwaysAppended ==
    (Done /\ AnimatedTimelines(timelines) # <<>> /\ DOMAIN finalStyles # {}) =>
        HasStyles(LastKeyframe(output[Len(output)]).styles, finalStyles)

\* C9 (amended): when at least one timeline contains animation, the final style
\* map is non-empty and the cursor of the last timeline that contains animation
\* is on a keyframe marked as an empty step (allowOnlyTimelineStyles() is
\* false), the compiler writes every property of the final style map with its
\* final value into the current keyframe of that timeline, and so into the
\* keyframe of the last compiled instruction built from it; when
\* allowOnlyTimelineStyles() is true the final styles are not applied and the
\* timelines are left as the traversal built them.
CursorIndex(tl) == CHOOSE k \in 1..Len(tl.order) : tl.order[k] = tl.currentKeyframe

C9_FinalStylesOnEmptyStep ==
    [][(phase = "visit" /\ phase' = "done" /\ AnimatedTimelines(timelines) # <<>>
            /\ DOMAIN finalStyles # {}) =>
        LET kept == AnimatedTimelines(timelines)
            last == kept[Len(kept)]
        IN IF OnEmptyStep(timelines[last])
           THEN /\ HasStyles(timelines'[last].keyframes[timelines'[last].currentKeyframe],
                             finalStyles)
                /\ HasStyles(output'[Len(output')].keyframes[CursorIndex(timelines'[last])].styles,
                             finalStyles)
           ELSE timelines' = timelines]_vars

C9_Witness ==
    /\ Done
    /\ DOMAIN finalStyles # {}
    /\ AnimatedTimelines(timelines) # <<>>
    /\ LET kept == AnimatedTimelines(timelines)
       IN /\ OnEmptyStep(timelines[kept[Len(kept)]])
          /\ HasStyles(LastKeyframe(output[Len(output)]).styles, finalStyles)

\* C10: the output holds one instruction for each timeline of the context's
\* timeline list that has more than one keyframe, in creation order, and none
\* for the others; when no timeline has more than one keyframe the output is
\* exactly one instruction for the root element with no keyframes, duration 0
\* and delay 0; the output is never empty.
KeyframeCount(tl) == IF tl.sub THEN Len(tl.instruction[1].keyframes) ELSE Len(tl.order)

MoreThanOneKeyframe == {k \in 1..Len(timelines) : KeyframeCount(timelines[k]) > 1}

\* the k-th timeline, in creation order, with more than one keyframe
NthKept(k) ==
    CHOOSE j \in MoreThanOneKeyframe :
        Cardinality({i \in MoreThanOneKeyframe : i <= j}) = k

C10_OutputTimelines ==
    Done =>
        /\ Len(output) >= 1
        /\ IF MoreThanOneKeyframe # {}
           THEN /\ Len(output) = Cardinality(MoreThanOneKeyframe)
                /\ \A k \in 1..Len(output) : output[k] = buildKeyframes(timelines[NthKept(k)])
           ELSE /\ Len(output) = 1
                /\ output[1].element = Root
                /\ output[1].keyframes = <<>>
                /\ output[1].duration = 0
                /\ output[1].delay = 0

C10_Witness ==
    /\ Done
    /\ Len(output) = 2
    /\ Cardinality(MoreThanOneKeyframe) = 2
    /\ Len(timelines) > 2
    /\ output[2].element # output[1].element

\* C11: a query that matches zero elements appends exactly one error to the
\* shared error list when its optional flag is not set and none when it is
\* set; in both cases the traversal goes on (the rest of visitQuery and the
\* nodes that follow are compiled) and the compiler returns instructions.
MatchesNothing(node) == node.found = <<>> /\ ~node.includeSelf

IsOptional(node) ==
    node.locals # <<>> /\ "optional" \in DOMAIN node.locals[1] /\ node.locals[1]["optional"]

\* the steps of the sequence s that are queries matching nothing, not optional
FailedQueries(s) ==
    {k \in 1..Len(s.steps) :
        s.steps[k].type = "Query" /\ MatchesNothing(s.steps[k]) /\ ~IsOptional(s.steps[k])}

C11_ZeroMatchQuery ==
    /\ [][(Visiting("Query") /\ MatchesNothing(Top.node)) =>
            /\ Len(errors') = Len(errors) + (IF IsOptional(Top.node) THEN 0 ELSE 1)
            /\ SubSeq(errors', 1, Len(errors)) = errors
            /\ phase' = "visit"
            /\ Len(stack') = Len(stack)
            /\ Head(stack').op = "query"]_vars
    /\ [](Done => Len(output) >= 1)
    /\ [](Done /\ ast \in QueryThenStep =>
            /\ Len(errors) = Cardinality(FailedQueries(ast))
            /\ ast.steps[2].type = "Animate" =>
                 \E k \in 1..Len(output) :
                     /\ output[k].duration = ast.steps[2].timings.duration
                     /\ LastKeyframe(output[k]).styles = ast.steps[2].style.styles[1].map)

C11_Witness ==
    /\ Done
    /\ ast \in QueryThenStep
    /\ ~IsOptional(ast.steps[1])
    /\ ast.steps[2].type = "Animate"
    /\ Len(errors) = 1
    /\ Len(output[1].keyframes) = 2

\* C12: AnimationTransitionFactory.build throws exactly when the compilation
\* collected one or more errors, and the message of the error it throws lists
\* every collected message in collection order, one per line; when the error
\* list is empty it does not throw and returns a transition instruction.
Built == phase = "built"

C12_BuildThrowsCollectedErrors ==
    Built =>
        /\ transition.built
        /\ transition.thrown <=> errors # <<>>
        /\ transition.thrown =>
            /\ Len(transition.message) = Len(errors) + 1
            /\ \A k \in 1..Len(errors) : transition.message[k + 1] = errors[k]
        /\ ~transition.thrown =>
            /\ transition.instruction.timelines = output
            /\ transition.instruction.element = Root

C12_Witness ==
    /\ Built
    /\ transition.thrown
    /\ Len(errors) = 2
    /\ errors[1] # errors[2]

(* C13: animateChild() with a duration binding of 0 skips the sub animation *)

\* the animateChild() about to be visited finds pre-compiled instructions
ChildVisit == Visiting("AnimateChild") /\ ctxs[Top.ctx].element \in DOMAIN subInstructions

\* the duration binding the animateChild() node asks for is 0
AsksDurationZero(node) ==
    /\ node.locals # <<>>
    /\ "duration" \in DOMAIN node.locals[1]
    /\ IsZero(resolveTimingValue(node.locals[1]["duration"]))

\* the sub-timelines that a step appended to the list of timelines
AppendedSubTimelines(before, after) == {i \in (Len(before) + 1)..Len(after) : after[i].sub}

\* C13: when an AnimateChild node is visited for an element that has
\* pre-compiled instructions and the requested duration binding is 0, no
\* sub-timeline is appended, the current timeline of the parent context is
\* not replaced and its current time is unchanged; with any other duration
\* one sub-timeline is appended per pre-compiled instruction, in their order.
C13_AnimateChildDurationZero ==
    [][ChildVisit =>
        LET c == Top.ctx
            precompiled == subInstructions[ctxs[c].element]
            appended == AppendedSubTimelines(timelines, timelines')
        IN IF AsksDurationZero(Top.node)
           THEN /\ appended = {}
                /\ ctxs'[c].currentTimeline = ctxs[c].currentTimeline
                /\ currentTime(timelines'[ctxs'[c].currentTimeline])
                       = currentTime(timelines[ctxs[c].currentTimeline])
                /\ \A i \in 1..Len(timelines) : timelines'[i] = timelines[i]
           ELSE /\ Cardinality(appended) = Len(precompiled)
                /\ \A k \in 1..Len(precompiled) :
                       \* after the timeline of the inner context
                       LET i == Len(timelines) + 1 + k
                       IN /\ i \in appended
                          /\ timelines'[i].instruction[1].keyframes = precompiled[k].keyframes
    ]_vars

\* an animateChild() with duration 0 was visited, the two pre-compiled
\* instructions of the element were consumed and no sub-timeline exists
C13_Witness ==
    /\ ast \in ChildSteps
    /\ ast.type = "Sequence"
    /\ AsksDurationZero(ast.steps[2])
    /\ ctxs[1].previousNode = "AnimateChild"
    /\ Root \notin DOMAIN subInstructions
    /\ \A i \in 1..Len(timelines) : ~timelines[i].sub


(* C15, C16: the timing resolver                                           *)

Resolved == applied # NoApplication /\ applied.fn = "resolveTiming"

\* the text follows <number><s|ms> [<number><s|ms>] [<easing>]
FollowsGrammar(text) == matchTimeExpression(text) # <<>>

\* the error list is the earlier one with n messages after it
Appended(n) ==
    /\ Len(errors) = Len(applied.errors) + n
    /\ SubSeq(errors, 1, Len(applied.errors)) = applied.errors

\* C15: on a string that does not match the timing grammar the resolver
\* returns duration 0, delay 0 and an empty easing and appends exactly one
\* error; on a number it returns that number as the duration with delay 0
\* and an empty easing, and appends no error when the number is >= 0.
C15_UnparsableAndNumber ==
    Resolved =>
        /\ (applied.timings.type = "string" /\ ~FollowsGrammar(applied.timings.text))
               => /\ applied.result = AnimateTimings(Offset(0, 1), Offset(0, 1), <<>>)
                  /\ Appended(1)
        /\ applied.timings.type = "number"
               => /\ applied.result = AnimateTimings(applied.timings.number, Offset(0, 1), <<>>)
                  /\ (~IsNaN(applied.timings.number) /\ applied.timings.number[1] >= 0)
                         => Appended(0)

\* the text "1s 1" (a delay without a unit) was resolved after an earlier
\* error: zero timings came back and one message was added
C15_Witness ==
    /\ Resolved
    /\ applied.timings = Str(<<"1", "s", " ", "1">>)
    /\ ~applied.allowNegativeValues
    /\ applied.errors # <<>>
    /\ Len(errors) = 2
    /\ applied.result.duration = Offset(0, 1)

\* the expression resolved is a number or a text of the grammar
IsExpression == applied.timings.type = "number"
                \/ (applied.timings.type = "string" /\ FollowsGrammar(applied.timings.text))

\* C16: an expression with a negative duration or delay appends at least one
\* error when allowNegativeValues is not set and none when it is set; an
\* expression with neither negative never appends an error.
C16_NegativeValues ==
    (Resolved /\ IsExpression) =>
        LET negative == IsNegative(applied.result.duration) \/ IsNegative(applied.result.delay)
        IN /\ (negative /\ ~applied.allowNegativeValues)
                  => \E n \in 1..3 : Appended(n)
           /\ (negative /\ applied.allowNegativeValues) => Appended(0)
           /\ ~negative => Appended(0)

\* "1s -1s e" was resolved without allowNegativeValues: a duration of 1000,
\* a delay of -1000 and messages about it
C16_Witness ==
    /\ Resolved
    /\ applied.timings = Str(<<"1", "s", " ", "-", "1", "s", " ", "e">>)
    /\ ~applied.allowNegativeValues
    /\ applied.result = AnimateTimings(Offset(1000, 1), Offset(-1000, 1), <<"e">>)
    /\ Len(errors) > Len(applied.errors)


(* C17: interpolateLocals                                                  *)

Interpolated == applied # NoApplication /\ applied.fn = "interpolateLocals"

\* the references $name and ${name} of a text: where each starts, its text
\* and the variable it names
ReferencesOf(text) ==
    UNION {{[at |-> i, ref |-> m[1]] :
               m \in {SimpleMatch(SubSeq(text, i, Len(text))),
                      AdvancedMatch(SubSeq(text, i, Len(text)))} \ {<<>>}} :
           i \in 1..Len(text)}

Unbound(text, locals) == {r \in ReferencesOf(text) : r.ref.varName \notin DOMAIN locals}

\* C17: on a value that references an unbound variable interpolateLocals
\* appends an error, and a value whose only reference is unbound comes back
\* as the text with the empty string in the place of that reference (when
\* the text around it forms no reference of its own); on a
\* value with no reference, any number included, it returns the value as it
\* is, with its type, and appends no error.
C17_InterpolateLocals ==
    Interpolated =>
        LET text == toString(applied.value)
            refs == ReferencesOf(text)
            unbound == Unbound(text, applied.locals)
        IN /\ unbound # {}
                  => /\ Len(errors) > Len(applied.errors)
                     /\ SubSeq(errors, 1, Len(applied.errors)) = applied.errors
           /\ (Cardinality(refs) = 1 /\ unbound = refs)
                  => LET r == CHOOSE x \in refs : TRUE
                         without == SubSeq(text, 1, r.at - 1)
                                    \o SubSeq(text, r.at + Len(r.ref.exp), Len(text))
                     IN \* what is around the reference does not form one
                        ReferencesOf(without) = {}
                            => applied.result = Str(without) /\ Appended(1)
           /\ refs = {} => applied.result = applied.value /\ Appended(0)

\* "1$w " was interpolated with no variable bound: "1 " came back and one
\* message was added after the earlier one
C17_Witness ==
    /\ Interpolated
    /\ applied.value = Str(<<"1", "$", "w", " ">>)
    /\ applied.locals = NoLocals
    /\ applied.result = Str(<<"1", " ">>)
    /\ Len(applied.errors) = 1
    /\ Len(errors) = 2


(* C14: AnimationTimelineContext.delayNextStep with a delay <= 0           *)

\* the step is a call of the method on a context
CtxCalls(method) == phase = "context" /\ calls' = calls + 1 /\ lastCall'.method = method

\* C14: delayNextStep(delay) on a context with delay <= 0 is ignored: the
\* start time, the duration and the keyframes of its current timeline (and
\* of every other timeline) stay as they are and no error is recorded.
C14_NonPositiveDelayIgnored ==
    [][(CtxCalls("delayNextStep") /\ lastCall'.arg <= 0) =>
        LET c == lastCall'.tl
            before == timelines[ctxs[c].currentTimeline]
            after == timelines'[ctxs'[c].currentTimeline]
        IN /\ ctxs'[c].currentTimeline = ctxs[c].currentTimeline
           /\ after.startTime = before.startTime
           /\ after.duration = before.duration
           /\ after.keyframes = before.keyframes
           /\ timelines' = timelines
           /\ errors' = errors
    ]_vars

\* delayNextStep(-3) was called on a context whose timeline had a style
\* written and five milliseconds elapsed
C14_Witness ==
    /\ phase = "context"
    /\ lastCall.method = "delayNextStep"
    /\ lastCall.arg = -3
    /\ LET tl == timelines[ctxs[lastCall.tl].currentTimeline]
       IN /\ tl.duration = 5
          /\ \E t \in DOMAIN tl.keyframes : "opacity" \in DOMAIN tl.keyframes[t]


(* C20: the bindings of a context made by createSubContext                 *)

\* the names of a locals object that start with $
DollarNames(bindings) == DOMAIN bindings \cap VarRefs

\* C20: the context made by createSubContext(locals) holds the parent's $
\* bindings overridden by the given locals and nothing else of the parent:
\* a given name has the given value, a $ name of the parent that is not given
\* keeps the parent's value; making the context, or updating the locals of
\* a context that has a parent, leaves the bindings of every other context,
\* the parent's included, as they were.
C20_SubContextBindings ==
    /\ [][CtxCalls("createSubContext") =>
            LET parent == LocalsIn(ctxs, lastCall'.tl)
                arg == GivenLocals[lastCall'.arg]
                given == IF arg = <<>> THEN EmptyMap ELSE arg[1]
                child == LocalsIn(ctxs', Len(ctxs'))
            IN /\ Len(ctxs') = Len(ctxs) + 1
               /\ ctxs'[Len(ctxs')].parentContext = lastCall'.tl
               /\ DOMAIN child = DollarNames(parent) \cup DOMAIN given
               /\ \A name \in DollarNames(given) : child[name] = given[name]
               /\ \A name \in DollarNames(parent) \ DOMAIN given : child[name] = parent[name]
               /\ \A k \in 1..Len(ctxs) : LocalsIn(ctxs', k) = LocalsIn(ctxs, k)
       ]_vars
    /\ [][CtxCalls("updateLocals") =>
            \A k \in 1..Len(ctxs) : k # lastCall'.tl => LocalsIn(ctxs', k) = LocalsIn(ctxs, k)
       ]_vars

\* a context was made from the root context, which binds $w, $x, delay and
\* easing, with $w given anew: it has the given $w and the root's $x only,
\* and the root has what it had
C20_Witness ==
    /\ phase = "context"
    /\ lastCall = Call("createSubContext", 1, 2)
    /\ rootLocals = RootLocals[3]
    /\ Len(ctxs) = 2
    /\ LocalsIn(ctxs, 2) = ("$w" :> "9") @@ ("$x" :> "1")
    /\ LocalsIn(ctxs, 1) = rootLocals


(* C19: mergeTimelineCollectedStyles                                       *)

\* the step is a call of the method on one of the two builders
ApiCalls(method) == phase = "api" /\ calls' = calls + 1 /\ lastCall'.method = method

\* C19: mergeTimelineCollectedStyles(other) gives this timeline, for every
\* property of other's summary that it never wrote or wrote strictly
\* earlier, other's value and other's timestamp; every other entry of its
\* summary stays as it was.
C19_MergeAdoptsValueAndTime ==
    [][ApiCalls("mergeTimelineCollectedStyles") =>
        LET this == timelines[lastCall'.tl].styleSummary
            other == timelines[lastCall'.arg].styleSummary
            merged == timelines'[lastCall'.tl].styleSummary
        IN /\ DOMAIN merged = DOMAIN this \cup DOMAIN other
           /\ \A prop \in DOMAIN merged :
                  IF prop \in DOMAIN other
                     /\ (prop \notin DOMAIN this \/ this[prop].time < other[prop].time)
                  THEN merged[prop] = other[prop]
                  ELSE merged[prop] = this[prop]
    ]_vars


(* C18: the function provided for FLUSH_ANIMATIONS_FN                      *)

\* C18: every invocation of the function calls engine.flush() exactly once
\* (the count goes up by one, whatever the renderers have queued, and no
\* renderer's flag changes); as long as nothing else flushes the engine (no
\* renderer exists) the count after n invocations is n, 0 before the first.
C18_FlushFnFlushesOnce ==
    /\ [][(phase = "renderer" /\ invocations' # invocations) =>
            /\ invocations' = invocations + 1
            /\ flushCount' = flushCount + 1
            /\ flushPending' = flushPending
       ]_vars
    /\ []((phase = "renderer" /\ Len(flushPending) = 0) => flushCount = invocations)
    /\ []((phase = "renderer" /\ calls = 0) => (invocations = 0 /\ flushCount = 0))

\* the function was invoked three times and nothing else happened
C18_Witness ==
    /\ phase = "renderer"
    /\ Len(flushPending) = 0
    /\ calls = 3
    /\ invocations = 3
    /\ flushCount = 3


(* C21: TimelineBuilder.fork                                               *)

\* C21: fork(element, atTime) returns a new builder of the element with
\* duration 0; it starts at atTime whenever atTime is passed and at the
\* forking builder's current time (startTime + duration) only when atTime is
\* omitted; it reads the same global style map of the element as the forking
\* builder does.
C21_ForkStartsAtGivenTime ==
    [][ApiCalls("fork") =>
        LET this == timelines[lastCall'.tl]
            given == lastCall'.arg
            new == timelines'[Len(timelines')]
        IN /\ Len(timelines') = Len(timelines) + 1
           /\ new.element = given.element
           /\ new.duration = 0
           /\ new.startTime = IF given.atTime # <<>> THEN given.atTime[1]
                              ELSE currentTime(this)
           /\ new.globalRef = lookup'[given.element]
           /\ given.element = this.element => new.globalRef = this.globalRef
           /\ \A e \in DOMAIN lookup : lookup'[e] = lookup[e]
    ]_vars


(* C22: buildKeyframes of a timeline of duration 0                         *)

\* C22: buildKeyframes() on a timeline whose duration is 0 returns a single
\* keyframe, and its offset is 0.
C22_ZeroDurationKeyframe ==
    [][(ApiCalls("buildKeyframes") /\ timelines[lastCall'.tl].duration = 0) =>
        /\ Len(output'[1].keyframes) = 1
        /\ OffsetEq(output'[1].keyframes[1].offset, OffsetZero)
    ]_vars


(* C23: appendInstructionToTimeline                                        *)

\* C23: appendInstructionToTimeline(instruction, requested) appends exactly
\* one sub-timeline builder, of the instruction's element and keyframes,
\* whose timings take each of duration, delay and easing from the request
\* when the request has it and from the instruction when it has not.
C23_RequestedTimingsReplace ==
    [][CtxCalls("appendInstructionToTimeline") =>
        LET requested == lastCall'.arg
            new == timelines'[Len(timelines')]
        IN /\ Len(timelines') = Len(timelines) + 1
           /\ SubSeq(timelines', 1, Len(timelines)) = timelines
           /\ new.sub
           /\ new.instruction[1].keyframes = EasedInstruction.keyframes
           /\ new.instruction[1].duration =
                  IF requested.duration # <<>> THEN requested.duration[1]
                  ELSE EasedInstruction.duration
           /\ new.instruction[1].delay =
                  IF requested.delay # <<>> THEN requested.delay[1]
                  ELSE EasedInstruction.delay
           /\ new.instruction[1].easing =
                  IF requested.easing # <<>> THEN requested.easing[1]
                  ELSE EasedInstruction.easing
    ]_vars


(* C24: a Style node directly after an Animate node                        *)

\* the step is the visit of a Style node whose context has no animate
\* timing active and an Animate node as previous node
StyleAfterAnimate ==
    /\ Visiting("Style")
    /\ ctxs[Top.ctx].previousNode = "Animate"
    /\ ctxs[Top.ctx].currentAnimateTimings = <<>>
    /\ stack' = Tail(stack)

\* C24: a Style node visited directly after an Animate node, no animate
\* timing being active, is written into a keyframe of the same timeline at
\* a strictly later relative time than the keyframe the animate ended on,
\* and that keyframe keeps its style properties and their values, as
\* stored and as buildKeyframes resolves them through the backfill.
C24_StyleAfterAnimate ==
    [][StyleAfterAnimate =>
        LET c == Top.ctx
            i == ctxs[c].currentTimeline
            end == timelines[i].currentKeyframe
            written == timelines'[i].keyframes[timelines'[i].currentKeyframe]
            before == copyStylesProto(timelines[i].keyframes[end], timelines[i].backFill)
            after == copyStylesProto(timelines'[i].keyframes[end], timelines'[i].backFill)
        IN /\ ctxs'[c].currentTimeline = i
           /\ end = timelines[i].duration
           /\ timelines'[i].currentKeyframe > end
           /\ \A k \in 1..Len(Top.node.styles) :
                  \A prop \in DOMAIN Top.node.styles[k].map :
                      /\ prop \in DOMAIN written
                      /\ written[prop] = Top.node.styles[k].map[prop]
           /\ timelines'[i].keyframes[end] = timelines[i].keyframes[end]
           /\ \A prop \in DOMAIN before :
                  prop \in DOMAIN after /\ after[prop] = before[prop]
    ]_vars

\* sequence([animate(5, style({opacity: 0})), style({width: 1})]) after the
\* visit of the style: the animate ended on the keyframe of time 5, the
\* style is in the keyframe of time 6
C24_Witness ==
    /\ phase = "visit"
    /\ ast = SequenceAst(<<A(5, 0, O0), S(W1)>>, <<>>)
    /\ startingStyles = EmptyMap
    /\ Len(stack) = 1
    /\ ctxs[1].previousNode = "Style"
    /\ timelines[1].order = <<0, 5, 6>>
    /\ timelines[1].keyframes[5] = O0
    /\ timelines[1].keyframes[6] = W1 @@ O0


(* C25: the timeline that follows a keyframes() animation                  *)

\* the step is the visit of an Animate node with a Keyframes payload
KeyframesVisit ==
    /\ Visiting("Animate")
    /\ Top.node.style.type = "Keyframes"
    /\ stack' = Tail(stack)

\* C25: after the visit of an Animate node with a Keyframes payload the
\* context's current timeline is a new timeline whose start time is the
\* absolute time the keyframes animation began at (the parent timeline's
\* current time once the animate's delay has passed) plus the animate's
\* duration, which is the absolute time the inner keyframes timeline ends
\* at, whatever the start time of the parent timeline.
C25_TimelineAfterKeyframes ==
    [][KeyframesVisit =>
        LET c == Top.ctx
            parent == timelines[ctxs[c].currentTimeline]
            began == currentTime(parent) + Top.node.timings.delay
            inner == timelines'[Len(timelines) + 1]
            new == timelines'[ctxs'[c].currentTimeline]
        IN /\ Len(timelines') = Len(timelines) + 2
           /\ ctxs'[c].currentTimeline = Len(timelines')
           /\ new.duration = 0
           /\ new.startTime = began + Top.node.timings.duration
           /\ new.startTime = currentTime(inner)
    ]_vars


(* C26: the timelines of the children of a Group                           *)

\* the step forks the timeline of the next child of a group / is the code
\* after the loop over the children
GroupFork == Waiting("group") /\ Top.next <= Len(Top.node.steps)
GroupDone == Waiting("group") /\ Top.next > Len(Top.node.steps)

\* the delay a node declares in its locals, 0 when it declares none
DeclaredDelay(node) ==
    IF node.locals # <<>> /\ "delay" \in DOMAIN node.locals[1]
    THEN Millis(resolveTimingValue(node.locals[1]["delay"])) ELSE 0

\* the absolute time at which what a timeline animates is over
EndOf(tl) ==
    IF tl.sub THEN tl.instruction[1].delay + tl.instruction[1].duration ELSE currentTime(tl)

RECURSIVE Latest(_)
Latest(times) ==
    IF times = {} THEN 0
    ELSE LET t == CHOOSE x \in times : TRUE IN Max(t, Latest(times \ {t}))

\* C26: every child of a Group is compiled on a forked timeline of its own
\* that starts at the parent's current time at group entry plus the delay
\* the group declares, however long the earlier children ran, the parent's
\* timeline being left alone meanwhile; after the group the parent's
\* current timeline is a new timeline that starts at the latest of the
\* parent's entry time and the times at which the children's timelines end.
C26_GroupChildrenShareOrigin ==
    [][(GroupFork \/ GroupDone) =>
        LET c == Top.ctx
            parent == ctxs[c].currentTimeline
            entry == currentTime(timelines[parent])
            new == timelines'[Len(timelines')]
        IN /\ Len(timelines') = Len(timelines) + 1
           /\ new.duration = 0
           /\ GroupFork =>
                 /\ ctxs'[Len(ctxs')].currentTimeline = Len(timelines')
                 /\ new.startTime = entry + DeclaredDelay(Top.node)
                 /\ ctxs'[c].currentTimeline = parent
                 /\ timelines'[parent] = timelines[parent]
           /\ GroupDone =>
                 /\ ctxs'[c].currentTimeline = Len(timelines')
                 /\ new.startTime =
                        Latest({entry} \cup {EndOf(timelines[j]) :
                                                j \in (parent + 1)..Len(timelines)})
    ]_vars


(* C27: a Sequence of Animate nodes with style payloads                    *)

IsStyledAnimate(node) == node.type = "Animate" /\ node.style.type = "Style"

\* the root is a Sequence without locals, all of whose steps are Animate
\* nodes with a style payload
SequenceOfAnimates ==
    /\ ast.type = "Sequence"
    /\ ast.locals = <<>>
    /\ ast.steps # <<>>
    /\ \A k \in 1..Len(ast.steps) : IsStyledAnimate(ast.steps[k])

\* delay + duration of the steps 1..k
RECURSIVE ElapsedAfter(_, _)
ElapsedAfter(steps, k) ==
    IF k = 0 THEN 0
    ELSE ElapsedAfter(steps, k - 1) + steps[k].timings.delay + steps[k].timings.duration

\* C27: once a Sequence of Animate nodes with style payloads is visited,
\* there is still the one timeline; for every step k it has a keyframe at
\* the relative time that is the sum of delay + duration of the steps 1..k,
\* holding the styles of step k, and its duration is the sum over all steps.
C27_SequenceBackToBack ==
    (Returned /\ SequenceOfAnimates) =>
        /\ Len(timelines) = 1
        /\ timelines[1].startTime = 0
        /\ timelines[1].duration = ElapsedAfter(ast.steps, Len(ast.steps))
        /\ \A k \in 1..Len(ast.steps) :
              LET time == ElapsedAfter(ast.steps, k)
                  tokens == ast.steps[k].style.styles
              IN /\ time \in DOMAIN timelines[1].keyframes
                 /\ \A n \in 1..Len(tokens) : \A prop \in DOMAIN tokens[n].map :
                        /\ prop \in DOMAIN timelines[1].keyframes[time]
                        /\ timelines[1].keyframes[time][prop] = tokens[n].map[prop]

\* sequence([animate('5ms 3ms', style({width: 1})), animate(10, style({opacity: 1}))])
\* was visited: keyframes at 0, 3 (end of the delay), 8 and 18
C27_Witness ==
    /\ Returned
    /\ ast = SequenceAst(<<A(5, 3, W1), A(10, 0, O1)>>, <<>>)
    /\ timelines[1].order = <<0, 3, 8, 18>>
    /\ timelines[1].duration = 18
    /\ timelines[1].keyframes[8]["width"] = "1"
    /\ timelines[1].keyframes[18]["opacity"] = "1"


(* C28: a Query branch that only writes styles                             *)

\* a single Style node, or a Sequence of Style nodes
StyleOnly(node) ==
    \/ node.type = "Style"
    \/ /\ node.type = "Sequence"
       /\ node.steps # <<>>
       /\ \A k \in 1..Len(node.steps) : node.steps[k].type = "Style"

\* the step is the rest of an iteration of visitQuery, after the visit of
\* the animation on the context of a match has returned
QueryBranchReturned == Waiting("query") /\ Top.inner # 0

\* C28: when the branch of a Query match was a single Style node or a
\* Sequence of Style nodes (it wrote styles and advanced no time), the
\* branch timeline is advanced by one frame and snapshotted: it has one
\* more keyframe, at the next time, holding the styles written, so that it
\* contains animation and is compiled into the output.
C28_StyleOnlyBranchForcesFrame ==
    [][(QueryBranchReturned /\ StyleOnly(Top.node.animation)) =>
        LET i == ctxs[Top.inner].currentTimeline
            before == timelines[i]
            after == timelines'[i]
        IN /\ currentTime(before) = Top.startTime
           /\ after.duration = before.duration + 1
           /\ after.currentKeyframe = after.duration
           /\ DOMAIN after.keyframes = DOMAIN before.keyframes \cup {after.duration}
           /\ \A prop \in DOMAIN before.localTimelineStyles :
                  /\ prop \in DOMAIN after.keyframes[after.currentKeyframe]
                  /\ after.keyframes[after.currentKeyframe][prop] =
                         before.localTimelineStyles[prop]
           /\ containsAnimation(after)
    ]_vars


(* C29: the offsets of a stretched sub-timeline                            *)

\* q is the fraction x rounded to two decimal places: a number of
\* hundredths that is at most half a hundredth away from x
RoundedToHundredths(q, x) ==
    \E n \in 0..100 :
        /\ OffsetEq(q, Offset(n, 100))
        /\ 2 * (100 * x[1] - n * x[2]) <= x[2]
        /\ 2 * (n * x[2] - 100 * x[1]) <= x[2]

IsFullStaggerQuery(node) ==
    /\ node.type = "Query"
    /\ ~node.includeSelf
    /\ node.animation.type = "Stagger"
    /\ node.animation.timings.easing = "full"
    /\ node.animation.timings.duration > 0

\* the input is such a query, alone or as the second step of a sequence
StaggerChainScenario ==
    \/ IsFullStaggerQuery(ast)
    \/ /\ ast.type = "Sequence"
       /\ Len(ast.steps) = 2
       /\ IsFullStaggerQuery(ast.steps[2])

ChainedQuery == IF ast.type = "Query" THEN ast ELSE ast.steps[2]

\* the timeline compiled for the matched element e
MatchTimeline(e) == timelines[CHOOSE k \in 1..Len(timelines) : timelines[k].element = e]

\* C30: for a query whose animation is a stagger in 'full' mode around
\* Style and Animate steps, the matches are chained end to end: the timeline
\* of the first match starts at the time the query starts, and the timeline
\* of every later match starts at the absolute time at which the timeline of
\* the match before it ended.
C30_FullStaggerChains ==
    (Done /\ StaggerChainScenario) =>
        /\ \A e \in 1..Len(ChainedQuery.found) :
              Cardinality({k \in 1..Len(timelines) : timelines[k].element = e}) = 1
        /\ Len(ChainedQuery.found) > 0 => MatchTimeline(1).startTime = QueryStart
        /\ \A e \in 2..Len(ChainedQuery.found) :
              MatchTimeline(e).startTime = EndOf(MatchTimeline(e - 1))


(* C31: what the keyframes before the first write of a property report     *)

\* what the keyframe of timeline tl at time reports for prop when it is
\* read with its prototype, as buildKeyframes reads it; <<>> is no value
Reports(tl, time, prop) == ReadProto(tl.keyframes[time], tl.backFill, prop)

\* the timeline has set prop itself or taken it over from another timeline
HasSet(tl, prop) ==
    \/ prop \in DOMAIN tl.styleSummary
    \/ \E time \in DOMAIN tl.keyframes : prop \in DOMAIN tl.keyframes[time]

EarlierKeyframes(tl) == {time \in DOMAIN tl.keyframes : time < tl.currentKeyframe}

\* C31: when setStyles sets a property the timeline has not set before, every
\* keyframe of the timeline before the current one reports for it the value
\* the element's shared styles held just before the call, or AUTO when they
\* held none; when it sets a property the timeline has set before, whatever
\* the value of that first write, the keyframes before the current one
\* report what they reported before the call.
C31_BackfillOfFirstWrite ==
    [][ApiCalls("setStyles") =>
        LET i == lastCall'.tl
            before == timelines[i]
            after == timelines'[i]
            held == globalStyles(timelines, i)
        IN \A prop \in DOMAIN lastCall'.arg :
              \A time \in EarlierKeyframes(before) :
                  IF HasSet(before, prop)
                  THEN Reports(after, time, prop) = Reports(before, time, prop)
                  ELSE Reports(after, time, prop) =
                           <<IF prop \in DOMAIN held THEN held[prop] ELSE AUTO_STYLE>>
    ]_vars


(* C32, C33: when an AnimationRenderer flushes the engine                  *)

\* the step is one event of the renderers, and the zone emitting
RendererStep == phase = "renderer" /\ calls' = calls + 1
ZoneEmits == RendererStep /\ lastCall'.method = "microtaskEmpty"

IsQueued(q) == q.child \/ q.property

RECURSIVE Total(_)
Total(counts) == IF counts = <<>> THEN 0 ELSE Head(counts) + Total(Tail(counts))

\* C32: a renderer calls engine.flush() only when the zone emits
\* onMicrotaskEmpty and only if appendChild, insertBefore, removeChild or a
\* setProperty of an '@' name for which the engine returned a truthy value
\* was called on it since it last flushed; however many of these were called
\* it then flushes exactly once, and with none of them it does not flush.
\* The flushes of the engine at that event are those of the renderers.
C32_FlushOnlyWhenQueued ==
    [][RendererStep =>
        /\ \A r \in 1..Len(flushes) :
              /\ flushes'[r] # flushes[r] => lastCall'.method = "microtaskEmpty"
              /\ lastCall'.method = "microtaskEmpty" =>
                    flushes'[r] = flushes[r] + (IF IsQueued(queued[r]) THEN 1 ELSE 0)
        /\ lastCall'.method = "microtaskEmpty" =>
              flushCount' - flushCount = Total(flushes') - Total(flushes)
    ]_vars

\* the zone emitted after three calls on the one renderer, which flushed once
C32_Witness ==
    /\ phase = "renderer"
    /\ lastCall.method = "microtaskEmpty"
    /\ calls = 5
    /\ flushes = <<1>>
    /\ flushCount = 1
    /\ queued = <<NothingQueued>>

\* C33: every appendChild, insertBefore or removeChild on a renderer is
\* followed by a call of engine.flush() by that renderer when the zone next
\* emits onMicrotaskEmpty, and no renderer's flag is left set by that event.
C33_QueuedFlushNotLost ==
    [][ZoneEmits =>
        \A r \in 1..Len(flushes) :
            /\ queued[r].child => flushes'[r] = flushes[r] + 1
            /\ ~flushPending'[r]
    ]_vars

\* the zone emitted after a child was added or removed on the second of
\* two renderers: that renderer flushed, the other did not
C33_Witness ==
    /\ phase = "renderer"
    /\ lastCall.method = "microtaskEmpty"
    /\ calls = 4
    /\ flushes = <<0, 1>>
    /\ flushCount = 1
    /\ flushPending = <<FALSE, FALSE>>


(* C34: the locals AnimationTransitionFactory.build gives the compiler     *)

Given(optional) == IF optional # <<>> THEN optional[1] ELSE EmptyMap

\* C34: build hands the compiler every binding its caller supplied, with the
\* supplied value, whether or not the transition declares locals; what the
\* transition declares is added only for the names the caller did not supply.
C34_CallerLocalsReachCompiler ==
    (phase = "util" /\ applied.fn = "build") =>
        LET supplied == Given(applied.locals)
            declared == Given(applied.transitionLocals)
        IN /\ DOMAIN applied.result = DOMAIN supplied \cup DOMAIN declared
           /\ \A name \in DOMAIN supplied : applied.result[name] = supplied[name]
           /\ \A name \in DOMAIN declared \ DOMAIN supplied :
                  applied.result[name] = declared[name]


(* C35: the locals of a Reference node                                     *)

\* the value updateLocals stores for a declared name
Stored(name, value) ==
    IF name \in {"duration", "delay"} THEN resolveTimingValue(value) ELSE value

\* C35: visiting a Reference node applies its declared locals as defaults:
\* every declared name the context does not bind becomes bound to the
\* declared value, and every binding the context holds, duration and delay
\* included, stays as it is.
C35_ReferenceLocalsAreDefaults ==
    [][Visiting("Reference") =>
        LET before == LocalsIn(ctxs, Top.ctx)
            after == LocalsIn(ctxs', Top.ctx)
            declared == Given(Top.node.locals)
        IN /\ DOMAIN after = DOMAIN before \cup DOMAIN declared
           /\ \A name \in DOMAIN before : after[name] = before[name]
           /\ \A name \in DOMAIN declared \ DOMAIN before :
                  after[name] = Stored(name, declared[name])
    ]_vars


(* C36: TimelineBuilder.delayNextStep                                      *)

\* C36: delayNextStep(d) with d > 0 moves the current time of the timeline
\* (startTime + duration) forward by exactly d, whether its duration is 0
\* or it has already advanced, and whatever its start time.
C36_DelayMovesCurrentTimeByDelay ==
    [][(CtxCalls("delayNextStep") /\ lastCall'.arg > 0) =>
        LET i == ctxs[lastCall'.tl].currentTimeline
        IN currentTime(timelines'[i]) = currentTime(timelines[i]) + lastCall'.arg
    ]_vars


(* C37: no timeline starts before time 0                                   *)

\* C37: every delay written in the inputs being 0 or more, every timeline
\* starts at 0 or later in every state of the compilation and every
\* instruction returned has a delay of 0 or more, whatever the duration of
\* a stagger (positive or negative), the index and the total of its query.
C37_NoNegativeStart ==
    /\ phase \in {"visit", "done", "built"} =>
          \A k \in 1..Len(timelines) : timelines[k].startTime >= 0
    /\ phase \in {"done", "built"} =>
          \A k \in 1..Len(output) : output[k].delay >= 0


(* C38: the locals of a Sequence node                                      *)

\* the values the keyframes of all timelines hold for prop
WrittenOn(tl, prop) ==
    {tl.keyframes[time][prop] : time \in {t \in DOMAIN tl.keyframes : prop \in DOMAIN tl.keyframes[t]}}

Written(prop) == UNION {WrittenOn(timelines[k], prop) : k \in 1..Len(timelines)}

\* C38: the bindings a Sequence node declares are in effect while its steps
\* are compiled: a variable that only the sequence's locals bind is replaced
\* by the declared value in the styles of its steps, and no error about a
\* missing variable is recorded.
C38_SequenceLocalsInEffect ==
    (Done /\ ast \in SequencesWithLocals /\ "$x" \notin DOMAIN rootLocals) =>
        /\ errors = <<>>
        /\ Written("width") = {ast.locals[1]["$x"]}


(* C39: what a style write touches                                         *)

\* the step writes styles on a builder: setStyles or mergeTimelineCollectedStyles
StyleWrite == ApiCalls("setStyles") \/ ApiCalls("mergeTimelineCollectedStyles")

\* the builders made by fork or given to the first context, by element
Forked(tls, element) == {k \in 1..Len(tls) : ~tls[k].sub /\ tls[k].element = element}

\* C39: a style write on a timeline of element E leaves every timeline of
\* another element as it was (its keyframes, its local styles and with them
\* the global styles of its element); and all timelines forked for one
\* element read and write one global style map: a value one of them sets is
\* the value every one of them reads from the global styles.
C39_WritesStayWithElement ==
    /\ [][StyleWrite =>
            LET i == lastCall'.tl
                E == timelines[i].element
            IN /\ \A j \in 1..Len(timelines) :
                     timelines[j].element # E => timelines'[j] = timelines[j]
               /\ lastCall'.method = "setStyles" /\ ~timelines[i].sub =>
                     \A j \in Forked(timelines', E), prop \in DOMAIN lastCall'.arg :
                         /\ prop \in DOMAIN globalStyles(timelines', j)
                         /\ globalStyles(timelines', j)[prop] = lastCall'.arg[prop]
       ]_vars
    /\ [](phase = "api" =>
            \A j \in 1..Len(timelines), k \in 1..Len(timelines) :
                (~timelines[j].sub /\ ~timelines[k].sub
                 /\ timelines[j].element = timelines[k].element) =>
                    timelines[j].globalRef = timelines[k].globalRef)

\* a builder was forked for another element and a style was then set on
\* the forked builder of the root element: the first builder reads the value
\* in the global styles, and the builder of the other element holds nothing
C39_Witness ==
    /\ phase = "api"
    /\ lastCall.method = "setStyles"
    /\ lastCall.tl = 2
    /\ Len(timelines) = 3
    /\ timelines[3].element = 1
    /\ ~timelines[3].sub
    /\ globalStyles(timelines, 1) = lastCall.arg
    /\ globalStyles(timelines, 3) = EmptyMap
    /\ timelines[3].keyframes = (0 :> EmptyMap)


=============================================================================
